---- MODULE Spec2Model ----
(***************************************************************************)
(* A model of core/runtime.rs: the JsRuntime poll loop (async op delivery  *)
(* through the SharedQueue with the overflow fallback, macrotask draining, *)
(* unhandled promise rejections) and the dynamic-import integration.       *)
(*                                                                         *)
(* One poll is a sequence of steps, one per statement group of             *)
(* JsRuntime::poll; `pc` is the position of the poll.  Script runs only    *)
(* where the code enters the engine: in `execute` (between polls) and in   *)
(* the callbacks the poll invokes.  What a script does there is an input,  *)
(* drawn from small sets.                                                  *)
(***************************************************************************)
EXTENDS Integers, Sequences, FiniteSets, TLC

\* ------------------------------------------------------------------ bounds
\* Things script does in one run: ops fired, dynamic imports started and
\* promises rejected without a handler.
MaxEffects == 2
\* Payload arena of the SharedQueue, in bytes (scaled down).
QueueCap == 2
\* Entries of the SharedQueue's offsets table (scaled down).
MaxRecords == 2
\* Invocations of the macrotask callback that return false in one poll.
MaxMacro == 1
\* Calls of execute whose script run is followed step by step.
MaxExecutes == 2
\* Termination requests by other threads.
MaxTerminations == 2
\* Dynamic imports a script awaits one after the other.
MaxAwaits == 3
\* Polls of a runtime constructed with one of the tests' loaders.
MaxPolls == 4
\* Import requests in one module source given to mod_new.
MaxRequests == 2
\* Calls of loader.resolve made by mod_new.
MaxResolves == 3
\* Runtimes constructed one after the other.
MaxRuntimes == 2
\* Calls of add_near_heap_limit_callback on one runtime.
MaxCallbacks == 2
\* Times the engine reports the heap near its limit to one callback.
MaxInvokes == 2

\* A response that can never fit the payload arena.
BigLen == QueueCap + 1
Lens == {1, BigLen}
Kinds == {"Async", "AsyncUnref"}
\* The id of the op the tests' router knows, and an id it does not know.
KnownOp == 1
UnknownOp == 100


VARIABLES
  pc,                          \* position of JsRuntime::poll ("idle": not polling)
  result,                      \* what the last poll returned
  ops,                         \* every op fired, in push order: [kind, len, st]
  runq,                        \* ready-to-run queue of pending_ops
  runq_unref,                  \* ready-to-run queue of pending_unref_ops
  shared,                      \* SharedQueue contents (op indices, FIFO)
  overflow_response,           \* poll's local overflow slot (0: None)
  have_unpolled_ops,
  woken,                       \* the waker was notified since the poll registered it
  js_recv_cb,                  \* a receive callback is registered
  js_macrotask_cb,             \* a macrotask callback is registered
  pending_promise_exceptions,
  rejections,                  \* promises rejected without a handler so far
  delivered,                   \* op indices in the order script received them
  pulled,                      \* op indices in the order poll pulled them
  raised,                      \* a callback poll invoked has thrown
  trace,                       \* script-visible steps of the poll in progress
  loads,                       \* every dynamic-import load, by load id
  dyn_import_map,              \* load ids that hold a promise resolver
  modules,                     \* the module registry: url -> module status
  alias,                       \* the registry's alias names
  registered,                  \* url -> modules created for it by mod_new so far
  requests,                    \* url -> the import requests of the module compiled for it
  children,                    \* url -> the import specifiers registered with its module
  resolve_calls,               \* mod_new's calls of loader.resolve: <<specifier, referrer>>
  main,                        \* the urls whose module was registered as main
  options,                     \* what the runtime was constructed with
  v8_isolate,                  \* the runtime's isolate: "owned", "leaked", "dropped", "none"
  snapshot_creator,            \* the snapshot builder: "none", "some", "dropped"
  has_snapshotted,
  global_context,              \* RuntimeState holds the handle of the global context
  heap,                        \* the isolate's script globals: name -> value (0: undefined)
  blob,                        \* the last snapshot taken: [taken, bytes]
  snapped,                     \* the globals as they were when that snapshot was taken
  seen,                        \* globals a check script of this runtime found to be 3
  runtimes,                    \* runtimes constructed so far
  near_heap_limit_callback_data, \* allocations: <<>> (None) or <<[cb, data]>>
  heap_callbacks,              \* the engine's near-heap-limit callbacks: [cb, data], in order
  invoke_count,                \* per closure added (its number is its data pointer): calls made
  freed,                       \* closures whose box was dropped
  count,                       \* a test loader's call counters, and the polls entered
  dispatch_count,              \* the op router's count of the ops it dispatched
  needs_init,                  \* the bootstrap script has not run yet
  startup_script,              \* the startup script not yet taken ("none": None)
  ran,                         \* scripts run so far, in order (user scripts once)
  terminating,                 \* the isolate's termination request is in effect
  terminations,                \* termination requests made by other threads so far
  execs,                       \* execute calls followed step by step, the last one current
  held,                        \* most RuntimeState borrows held at an entry into script so far
  at_poll                      \* the rejections recorded when the last poll was entered

opvars == <<ops, runq, runq_unref, have_unpolled_ops, dispatch_count>>

rejvars == <<pending_promise_exceptions, rejections, at_poll>>

\* What mod_new alone writes.
linkvars == <<requests, children, resolve_calls, main>>

regvars == <<modules, alias, registered, linkvars>>

dynvars == <<loads, dyn_import_map, regvars>>

termvars == <<terminating, terminations, execs>>

\* State the poll loop leaves alone.
\* The snapshot builder, the isolate and its heap.
\* IsolateAllocations and the engine's side of it.
allocvars == <<near_heap_limit_callback_data, heap_callbacks, invoke_count, freed>>

snapvars == <<v8_isolate, snapshot_creator, has_snapshotted, global_context, heap, blob,
              snapped, seen, runtimes, allocvars>>

initvars == <<options, snapvars, needs_init, startup_script, ran, termvars>>

hostvars == <<initvars, count>>

\* The state of the poll loop, which execute by itself leaves alone.
loopvars == <<trace, opvars, dynvars, shared, overflow_response, woken, js_recv_cb,
              js_macrotask_cb, rejvars, delivered, pulled, raised>>

vars == <<pc, result, ops, runq, runq_unref, shared, overflow_response,
          have_unpolled_ops, woken, js_recv_cb, js_macrotask_cb,
          pending_promise_exceptions, rejections, delivered, pulled, raised, trace,
          loads, dyn_import_map, modules, alias, registered, requests, children,
          resolve_calls, main, options, v8_isolate, snapshot_creator, has_snapshotted,
          global_context, heap, blob, snapped, seen, runtimes,
          near_heap_limit_callback_data, heap_callbacks, invoke_count, freed,
          needs_init, startup_script, ran, terminating, terminations, execs, held, count, dispatch_count,
          at_poll>>

\* A loader whose graph is a chain of three modules.
Chained == options.loader = "chain"

\* The module graph the loader serves: a.js imports b.js, and in the chain
\* b.js imports d.js.
Urls == IF Chained THEN {"a", "b", "d"} ELSE {"a", "b"}
Imports(url) ==
  CASE url = "a" -> {"b"}
    [] url = "b" /\ Chained -> {"d"}
    [] OTHER -> {}
\* The import requests in the source of each module of the graph.
Requests(url) ==
  CASE url = "a" -> <<"./b.js">>
    [] url = "b" /\ Chained -> <<"./d.js">>
    [] OTHER -> <<>>
\* The global names the scripts of the snapshot tests assign and check.
Globals == {"a", "b"}
\* A redirecting loader also serves the specifier c, which it finds at b.
Specifiers == Urls \cup {"c"}
Found(specifier) == IF specifier = "c" THEN "b" ELSE specifier

\* ------------------------------------------------------------- helpers
Range(s) == {s[i] : i \in 1..Len(s)}

Min(S) == CHOOSE x \in S : \A y \in S : x <= y

RECURSIVE SumLen(_)
SumLen(q) == IF q = <<>> THEN 0 ELSE ops[Head(q)].len + SumLen(Tail(q))

\* Futures still owned by a FuturesUnordered set.
InSet(st) == st \in {"new", "ready", "waiting"}

pending_ops == {i \in 1..Len(ops) : ops[i].kind = "Async" /\ InSet(ops[i].st)}

pending_unref_ops ==
  {i \in 1..Len(ops) : ops[i].kind = "AsyncUnref" /\ InSet(ops[i].st)}

preparing_dyn_imports == {l \in 1..Len(loads) : loads[l].where = "preparing"}

pending_dyn_imports == {l \in 1..Len(loads) : loads[l].where = "pending"}

\* SharedQueue::size
SharedSize == Len(shared)

\* No response is taken by the queue.
PushFits_Never(q, len) == FALSE

\* Every response is taken by the queue.
PushFits_Always(q, len) == TRUE

\* SharedQueue::push: false when the offsets table or the payload arena
\* would overflow, and then nothing is written.
PushFits(q, len) == Len(q) < MaxRecords /\ SumLen(q) + len <= QueueCap

\* FuturesUnordered::poll_next: polls the tasks of the ready-to-run queue in
\* order until one is complete.  A task polled before its future completed
\* leaves the queue and re-enters it when its future wakes it.
PollNextUnpin(q) ==
  LET rdy == {j \in 1..Len(q) : ops[q[j]].st = "ready"}
  IN  IF rdy = {}
      THEN [item |-> 0, polled |-> Range(q), rest |-> <<>>]
      ELSE LET j == Min(rdy)
           IN  [item |-> q[j],
                polled |-> {q[i] : i \in 1..(j - 1)},
                rest |-> SubSeq(q, j + 1, Len(q))]

SetSt(o, S, st) == [i \in 1..Len(o) |-> IF i \in S THEN [o[i] EXCEPT !.st = st] ELSE o[i]]

\* The steps recorded for the poll in progress; the record ends with the poll.
Trace(tr, to) == IF to = "idle" THEN <<>> ELSE tr

MacroCalls(tr) == Cardinality({j \in 1..Len(tr) : tr[j] = "macro"})

\* --------------------------------------------------------------- Init
\* JsRuntime::from_options: the state of a runtime constructed with options o.
\* StartupData::into_options yields a startup script only for the Script
\* variant; with will_snapshot the isolate is the one of a snapshot builder.
Constructed(o, will_snapshot) ==
  /\ pc = "idle"
  /\ result = "none"
  /\ ops = <<>>
  /\ runq = <<>>
  /\ runq_unref = <<>>
  /\ shared = <<>>
  /\ overflow_response = 0
  /\ have_unpolled_ops = FALSE
  /\ woken = FALSE
  /\ js_recv_cb = FALSE
  /\ js_macrotask_cb = FALSE
  /\ pending_promise_exceptions = {}
  /\ rejections = 0
  /\ delivered = <<>>
  /\ pulled = <<>>
  /\ raised = FALSE
  /\ trace = <<>>
  /\ loads = <<>>
  /\ dyn_import_map = {}
  /\ options = o
  /\ modules = [u \in Urls |-> "none"]
  /\ alias = {}
  /\ registered = [u \in Urls |-> 0]
  /\ requests = [u \in Urls |-> <<>>]
  /\ children = [u \in Urls |-> <<>>]
  /\ resolve_calls = <<>>
  /\ main = {}
  /\ v8_isolate = "owned"
  /\ snapshot_creator = (IF will_snapshot THEN "some" ELSE "none")
  /\ has_snapshotted = FALSE
  /\ global_context = TRUE
  /\ heap = [g \in Globals |-> 0]
  /\ blob = [taken |-> FALSE, bytes |-> <<>>]
  /\ snapped = [g \in Globals |-> 0]
  /\ seen = {}
  /\ runtimes = 1
  /\ near_heap_limit_callback_data = <<>>
  /\ heap_callbacks = <<>>
  /\ invoke_count = <<>>
  /\ freed = {}
  /\ count = [prepare_load |-> 0, resolve |-> 0, load |-> 0, polls |-> 0]
  /\ dispatch_count = 0
  /\ needs_init = TRUE
  /\ startup_script = IF o.startup \in {"script", "throws"} THEN "some" ELSE "none"
  /\ ran = <<>>
  /\ terminating = FALSE
  /\ terminations = 0
  /\ execs = <<>>
  /\ held = 0
  /\ at_poll = {}

\* A runtime constructed without will_snapshot.
InitWith(o) == Constructed(o, FALSE)

\* A runtime with an op router that answers async ops, a loader without
\* redirects and no startup data.
Init ==
  InitWith([op_router |-> "async", loader |-> "plain", startup |-> "none", awaits |-> <<>>])

\* ------------------------------------------------------- shared_init
\* The flag is left set.
NeedsInitAfter_Stays(n) == n

\* shared_init clears needs_init before it runs anything.
NeedsInitAfter(n) == FALSE

\* The scripts shared_init runs when needs_init is set: core.js, then the
\* startup script if there is one to take.
Bootstrapped(r, n, st) ==
  IF n THEN r \o <<"core.js">> \o (IF st = "some" THEN <<"startup">> ELSE <<>>) ELSE r

\* A user script runs (the log keeps the first one only).
RanUser(r) == IF "user" \in Range(r) THEN r ELSE Append(r, "user")

\* The startup script throws: shared_init unwraps the error of its execute.
StartupPanics == needs_init /\ options.startup = "throws"

\* shared_init as the first statement of execute, mod_evaluate, load_module
\* and poll; `user` tells whether the caller then runs a user script.
SharedInitRuns(user) ==
  /\ ~StartupPanics
  /\ needs_init' = NeedsInitAfter(needs_init)
  /\ startup_script' = IF needs_init THEN "none" ELSE startup_script
  /\ ran' = IF user
            THEN RanUser(Bootstrapped(ran, needs_init, startup_script))
            ELSE Bootstrapped(ran, needs_init, startup_script)

SharedInit(user) ==
  /\ SharedInitRuns(user)
  /\ UNCHANGED <<options, snapvars, termvars>>

\* ------------------------------------------------ RuntimeState borrows
\* dyn_import_done with the borrow taken for the resolver kept until the
\* function returns.
BorrowOps_Keeps(site) ==
  CASE site = "execute" -> <<"borrow", "drop", "script">>
    [] site = "batch" -> <<"borrow", "drop", "borrow", "drop", "script">>
    [] site = "overflow" -> <<"borrow", "drop", "script">>
    [] site = "macrotask" -> <<"borrow", "drop", "script">>
    [] site = "instantiate" -> <<"borrow", "drop", "script">>
    [] site = "evaluate" -> <<"borrow", "drop", "borrow", "drop", "script">>
    [] site = "dyn_import_done" ->
         <<"borrow", "drop", "borrow", "borrow", "drop", "script">>
    [] site = "dyn_import_error" -> <<"borrow", "drop", "borrow", "drop", "script">>

\* What each function that enters script does with the RefCell of the
\* RuntimeState up to the entry, in program order: execute (borrow 421, drop
\* 428, run 444), the batch call (borrow 618, drop 620, then
\* async_op_response: temporary borrow 706-711, call 725), the overflow call
\* (706-711, call 723), drain_macrotasks (temporary borrow 736-743, call 751),
\* mod_instantiate (borrow 906, drop 919, instantiate 925), mod_evaluate
\* (temporaries 947 and 950-955, evaluate 975), dyn_import_done (temporaries
\* 1050 and 1053-1057, block 1060-1067, checkpoint 1073) and
\* dyn_import_error (temporaries 1015 and 1018-1022, checkpoint 1035).
BorrowOps(site) ==
  CASE site = "execute" -> <<"borrow", "drop", "script">>
    [] site = "batch" -> <<"borrow", "drop", "borrow", "drop", "script">>
    [] site = "overflow" -> <<"borrow", "drop", "script">>
    [] site = "macrotask" -> <<"borrow", "drop", "script">>
    [] site = "instantiate" -> <<"borrow", "drop", "script">>
    [] site = "evaluate" -> <<"borrow", "drop", "borrow", "drop", "script">>
    [] site = "dyn_import_done" ->
         <<"borrow", "drop", "borrow", "drop", "borrow", "drop", "script">>
    [] site = "dyn_import_error" -> <<"borrow", "drop", "borrow", "drop", "script">>

\* Borrows alive when the function enters script.
HeldAtScript(seq) ==
  LET k == CHOOSE j \in 1..Len(seq) : seq[j] = "script"
  IN  Cardinality({j \in 1..(k - 1) : seq[j] = "borrow"})
        - Cardinality({j \in 1..(k - 1) : seq[j] = "drop"})

\* The record of the most borrows held at an entry into script, after the
\* function `site` entered script.
Entered(h, site) ==
  IF HeldAtScript(BorrowOps(site)) > h THEN HeldAtScript(BorrowOps(site)) ELSE h

\* ------------------------------------------------- what script can do
\* One thing a script does while it runs: nothing, fire an async op (the
\* router answers Async or AsyncUnref with a response of some length),
\* reject a promise nobody handles, or import a module dynamically.
\* Deno.core.send(op_id, control): the request is `req` bytes long and the
\* router answers with Op::kind; the response of a known op is `len` bytes.
SendEffects ==
  {[do |-> "send", op_id |-> KnownOp, kind |-> k, req |-> r, len |-> n] :
     k \in Kinds \cup {"Sync"}, r \in Lens, n \in Lens}
  \cup {[do |-> "send", op_id |-> UnknownOp, kind |-> "NotFound", req |-> 1, len |-> 1]}
  \cup {[do |-> "send", op_id |-> KnownOp, kind |-> "Async", req |-> 1, len |-> 0]}

RejectEffects == {[do |-> "reject"]}

ImportEffects == {[do |-> "import", root |-> u] : u \in Specifiers \cup {"foo"}}

Effects == {[do |-> "none"]} \cup SendEffects \cup RejectEffects \cup ImportEffects

\* A loader that counts the calls made to it and whose futures are ready
\* when first polled (tests::DynImportOkLoader).
Counting == options.loader = "counting"

\* A loader that counts the calls of resolve and whose load fails, at once
\* (tests::DynImportErrLoader); its prepare_load is the trait's default.
Failing == options.loader = "failing"

\* The futures of the tests' loaders are ready when they are first polled.
Immediate == Counting \/ Failing

\* The specifiers the loader the runtime was constructed with can serve.
Served ==
  CASE options.loader = "redirect" -> Specifiers
    [] Counting -> {"b"}
    [] Failing -> {"foo"}
    [] options.loader = "none" -> {}
    [] OTHER -> Urls

\* A script that is an async function awaiting import(options.awaits[k]) for
\* k = 1, 2, ... one after the other and doing nothing else
\* (dyn_import3.js, dyn_import2.js); any other script is free in what it does.
Scripted == options.awaits # <<>>

\* What the scripted function does when it is entered: called by execute it
\* runs up to its first import; resumed by the settling of its k-th import
\* (k loads in the table ld) it runs up to the next one, if it has one.
AwaitStep(ld) ==
  IF Len(ld) < Len(options.awaits)
  THEN [do |-> "import", root |-> options.awaits[Len(ld) + 1]]
  ELSE [do |-> "none"]

\* The awaited import is taken for fulfilled: the function goes on.
Resumed_Swallows(how, ld) == AwaitStep(ld)

\* The function resumed by the settling of the import it awaits: a rejected
\* import is thrown by the await, nothing catches it, and the promise of the
\* function is rejected with no handler.
Resumed(how, ld) == IF how = "resolved" THEN AwaitStep(ld) ELSE [do |-> "reject"]

\* What a script can do depends on the op router and the loader the
\* runtime was constructed with; the number of things done is bounded.
\* An op router whose async responses are one byte long or empty.
EmptyResponses == options.op_router = "empty"

\* How much script does in one run; over the router with empty responses it
\* fires one op more than the offsets table has entries.
EffectBound == IF EmptyResponses THEN MaxRecords + 1 ELSE MaxEffects

EffectEnabled(fx) ==
  IF Scripted
  THEN /\ fx.do \in {"none", "import", "reject"}
       /\ fx.do = "import" => fx = AwaitStep(loads) /\ (pc = "idle" => loads = <<>>)
       /\ fx.do = "reject" => pc # "idle"
  ELSE /\ fx.do # "none" => Len(ops) + Len(loads) + rejections < EffectBound
       /\ fx.do = "send" =>
            CASE options.op_router = "async" -> fx.kind \in Kinds /\ fx.req = 1 /\ fx.len # 0
              [] options.op_router = "test" ->
                   fx.kind \in {"Sync", "Async", "NotFound"} /\ fx.len # 0
              [] EmptyResponses -> fx.kind = "Async" /\ fx.req = 1 /\ fx.len \in {0, 1}
              [] OTHER -> FALSE
       /\ fx.do = "import" => fx.root \in Served

\* DynImportOkLoader: resolve, load and prepare_load add one to their
\* counter; resolve asserts that it was called fewer than four times before.
\* DynImportErrLoader counts the calls of resolve only.
ResolveLimit == 4

ResolveAssert == "assertion failed: c < 4"

ResolveAsserts(c) == Counting /\ c.resolve >= ResolveLimit

Resolve(c) == [c EXCEPT !.resolve = @ + 1]

Load(c) == IF Counting THEN [c EXCEPT !.load = @ + 1] ELSE c

PrepareLoad(c) == IF Counting THEN [c EXCEPT !.prepare_load = @ + 1] ELSE c

\* What the future returned by the loader's load yields for a specifier.
LoadResult(specifier) == [url |-> specifier, ok |-> ~Failing]

\* The prepare future resolves the root once more.
Prepare_ResolvesTwice(c) == PrepareLoad(Resolve(Resolve(c)))

\* RecursiveModuleLoad::prepare: the root specifier is resolved, then the
\* loader's prepare_load hook is called.
Prepare(c) == PrepareLoad(Resolve(c))

\* RecursiveModuleLoad::add_root, run when the load's stream is first polled:
\* the root specifier is resolved again and the loader's load is called.
AddRoot(c) == Load(Resolve(c))

\* bindings send: Op::Async(fut) pushes fut on pending_ops, Op::AsyncUnref(fut)
\* on pending_unref_ops; both set have_unpolled_ops.
\* ops also keeps what each call of send gave its caller (ret): the bytes of
\* a Sync op, null for an async op, a TypeError for an op that was not found.
UnknownOpId == "TypeError: Unknown op id: 100"

\* The caller of a Sync op gets null, like that of an async op.
SendReturn_Null(fx) ==
  CASE fx.kind = "Sync" -> "null"
    [] fx.kind = "NotFound" -> UnknownOpId
    [] OTHER -> "null"

\* A send to an unknown op returns null instead of throwing.
SendReturn_Silent(fx) ==
  CASE fx.kind = "Sync" -> "bytes"
    [] OTHER -> "null"

SendReturn(fx) ==
  CASE fx.kind = "Sync" -> "bytes"
    [] fx.kind = "NotFound" -> UnknownOpId
    [] OTHER -> "null"

SendState(fx) ==
  CASE fx.kind = "Sync" -> "returned"
    [] fx.kind = "NotFound" -> "thrown"
    [] OTHER -> "new"

SendOps(o, fx) ==
  IF fx.do = "send"
  THEN Append(o, [kind |-> fx.kind, len |-> fx.len, st |-> SendState(fx), req |-> fx.req,
                  ret |-> SendReturn(fx)])
  ELSE o

SendRunq(q, o, fx) ==
  IF fx.do = "send" /\ fx.kind = "Async" THEN Append(q, Len(o) + 1) ELSE q

SendRunqUnref(q, o, fx) ==
  IF fx.do = "send" /\ fx.kind = "AsyncUnref" THEN Append(q, Len(o) + 1) ELSE q

\* A send leaves the flag as it is.
SendUnpolled_Forgets(h, fx) == h

SendUnpolled(h, fx) == IF fx.do = "send" /\ fx.kind \in Kinds THEN TRUE ELSE h

\* The router dispatches a second time.
RouteOp_Twice(n, fx) == IF fx.do = "send" /\ fx.op_id = KnownOp THEN n + 2 ELSE n

\* TestOpRouter::route_op: an unknown op id returns Op::NotFound before the
\* counter is touched; any other call adds one to dispatch_count.
RouteOp(n, fx) == IF fx.do = "send" /\ fx.op_id = KnownOp THEN n + 1 ELSE n

\* bindings promise_reject_callback: records the rejection under the promise's
\* identity hash (here: the promise's number).
RejectExceptions(e, n, fx) == IF fx.do = "reject" THEN e \cup {n + 1} ELSE e

RejectCount(n, fx) == IF fx.do = "reject" THEN n + 1 ELSE n

\* RecursiveModuleLoad::dynamic_import: a load in LoadingRoot whose pending
\* work is the root, with a fresh load id.
NewLoad(root) ==
  [root |-> root, where |-> "preparing", prep |-> "wait", state |-> "LoadingRoot",
   root_module_id |-> "none", fetching |-> {root}, fetched |-> {},
   is_pending |-> {}, promise |-> "pending"]

\* JsRuntimeState::dyn_import_cb: the resolver is stored under the load's id,
\* the waker is notified and the load's prepare future joins
\* preparing_dyn_imports.
dyn_import_cb_loads(ld, fx) == IF fx.do = "import" THEN Append(ld, NewLoad(fx.root)) ELSE ld

dyn_import_cb_map(m, ld, fx) == IF fx.do = "import" THEN m \cup {Len(ld) + 1} ELSE m

dyn_import_cb_woken(w, fx) == IF fx.do = "import" THEN TRUE ELSE w

\* The state a script leaves behind: what it did (fx), on top of the ops
\* whose responses it received (got).
AfterScript(got, fx) ==
  /\ ops' = SendOps(SetSt(ops, got, "delivered"), fx)
  /\ runq' = SendRunq(runq, ops, fx)
  /\ runq_unref' = SendRunqUnref(runq_unref, ops, fx)
  /\ have_unpolled_ops' = SendUnpolled(have_unpolled_ops, fx)
  /\ dispatch_count' = RouteOp(dispatch_count, fx)
  /\ pending_promise_exceptions' =
       RejectExceptions(pending_promise_exceptions, rejections, fx)
  /\ rejections' = RejectCount(rejections, fx)
  /\ at_poll' = at_poll
  /\ loads' = dyn_import_cb_loads(loads, fx)
  /\ dyn_import_map' = dyn_import_cb_map(dyn_import_map, loads, fx)
  /\ woken' = dyn_import_cb_woken(woken, fx)

\* ------------------------------------------------ between two polls
\* JsRuntime::execute: a classic script runs (here: one thing it does).
Execute(fx) ==
  /\ pc = "idle"
  /\ fx.do # "none"
  /\ EffectEnabled(fx)
  /\ AfterScript({}, fx)
  /\ result' = "none"
  /\ UNCHANGED <<pc, trace, shared, overflow_response, js_recv_cb, js_macrotask_cb,
                 delivered, pulled, raised, regvars>>
  /\ SharedInit(TRUE)
  /\ UNCHANGED count
  /\ held' = Entered(held, "execute")

\* Script calls Deno.core.recv(fn) (core.js does when a handler is set).
ExecuteRecv ==
  /\ pc = "idle"
  /\ ~js_recv_cb
  /\ js_recv_cb' = TRUE
  /\ result' = "none"
  /\ UNCHANGED <<pc, trace, opvars, dynvars, shared, overflow_response, woken, js_macrotask_cb,
                 rejvars, delivered, pulled, raised>>
  /\ SharedInit(TRUE)
  /\ UNCHANGED count
  /\ held' = Entered(held, "execute")

\* Script calls Deno.core.setMacrotaskCallback(fn).
ExecuteSetMacrotaskCallback ==
  /\ pc = "idle"
  /\ ~js_macrotask_cb
  /\ js_macrotask_cb' = TRUE
  /\ result' = "none"
  /\ UNCHANGED <<pc, trace, opvars, dynvars, shared, overflow_response, woken, js_recv_cb,
                 rejvars, delivered, pulled, raised>>
  /\ SharedInit(TRUE)
  /\ UNCHANGED count
  /\ held' = Entered(held, "execute")

\* The work behind a pending op finishes (on the executor, outside the poll).
\* A future the set already polled wakes its task, which re-enters the
\* ready-to-run queue and notifies the runtime's waker.
Complete(i) ==
  /\ pc = "idle"
  /\ ops[i].st \in {"new", "waiting"}
  /\ ops' = SetSt(ops, {i}, "ready")
  /\ UNCHANGED dispatch_count
  /\ runq' = IF ops[i].st = "waiting" /\ ops[i].kind = "Async" THEN Append(runq, i) ELSE runq
  /\ runq_unref' =
       IF ops[i].st = "waiting" /\ ops[i].kind = "AsyncUnref"
       THEN Append(runq_unref, i) ELSE runq_unref
  /\ woken' = IF ops[i].st = "waiting" THEN TRUE ELSE woken
  /\ result' = "none"
  /\ UNCHANGED <<pc, trace, dynvars, shared, overflow_response, have_unpolled_ops, js_recv_cb,
                 js_macrotask_cb, hostvars, held, rejvars, delivered, pulled, raised>>

\* The loader finishes a load's prepare step: loader.resolve of the root
\* specifier followed by loader.prepare_load, either of which can fail.
PrepareDone(l, r) ==
  /\ pc \in {"idle", "load"}
  /\ loads[l].where \in {"preparing", "main"}
  /\ loads[l].prep = "wait"
  /\ loads' = [loads EXCEPT ![l].prep = r]
  /\ woken' = TRUE
  /\ result' = "none"
  /\ UNCHANGED <<pc, trace, opvars, dyn_import_map, regvars, shared, overflow_response,
                 js_recv_cb, js_macrotask_cb, hostvars, held, rejvars, delivered, pulled, raised>>

\* The loader finishes fetching one pending specifier of a load: a module
\* source, or an error.
FetchDone(l, url, ok) ==
  /\ pc \in {"idle", "load"}
  /\ loads[l].where = "pending" \/ (loads[l].where = "main" /\ loads[l].prep = "ok")
  /\ url \in loads[l].fetching
  /\ loads' = [loads EXCEPT ![l].fetching = @ \ {url},
                            ![l].fetched = @ \cup {[url |-> url, ok |-> ok]}]
  /\ woken' = TRUE
  /\ result' = "none"
  /\ UNCHANGED <<pc, trace, opvars, dyn_import_map, regvars, shared, overflow_response,
                 js_recv_cb, js_macrotask_cb, hostvars, held, rejvars, delivered, pulled, raised>>

\* ------------------------------------------------------ JsRuntime::poll
\* The panics of the poll, by their message.
RecvNotCalled == "Deno.core.recv has not been called."

NotDrained == "assertion failed: shared.size() == 0"

EmptyBuf == "assertion failed: !buf.is_empty()"

InvalidDynImportId == "Invalid dyn import id"

\* A panic ends the runtime: nothing runs after it.
Panic(why) ==
  /\ pc' = "dead"
  /\ result' = why

\* The overflow call placed before the batch call.
PollOrder_OverflowFirst ==
  <<"prepare", "dyn", "check1", "ops", "unref", "overflow", "batch", "macro", "check2",
    "finish">>

\* The statements of poll, in the order the function runs them.
PollOrder ==
  <<"prepare", "dyn", "check1", "ops", "unref", "batch", "overflow", "macro", "check2",
    "finish">>

\* The statement that follows `step`.
After(step) ==
  LET j == CHOOSE k \in 1..Len(PollOrder) : PollOrder[k] = step
  IN  IF j = Len(PollOrder) THEN "idle" ELSE PollOrder[j + 1]

\* poll entered: the waker is registered.
PollStart ==
  /\ pc = "idle"
  /\ pc' = PollOrder[1]
  /\ result' = "none"
  /\ trace' = <<>>
  /\ woken' = FALSE
  /\ UNCHANGED <<opvars, dynvars, shared, overflow_response, js_recv_cb,
                 js_macrotask_cb, pending_promise_exceptions, rejections, delivered, pulled, raised>>
  /\ SharedInit(FALSE)
  /\ UNCHANGED held
  /\ at_poll' = pending_promise_exceptions
  /\ Immediate => loads # <<>> /\ count.polls < MaxPolls
  /\ count' = [count EXCEPT !.polls = IF Immediate THEN @ + 1 ELSE @]

\* A load whose stream ended was instantiated and evaluated before its
\* import is settled.
SettledLoad(h, load) ==
  IF load.state = "Done" THEN Entered(Entered(h, "instantiate"), "evaluate") ELSE h

\* dyn_import_error and dyn_import_done: the resolver stored under the load
\* id is removed from dyn_import_map (a missing id is a panic), the promise
\* is rejected or resolved, and the microtask checkpoint runs script (fx).
\* ld is the load table as the caller leaves it.
Settle(l, ld, e, how, fx) ==
  IF l \in dyn_import_map
  THEN /\ Scripted => fx = Resumed(how, ld)
       /\ held' = Entered(SettledLoad(held, ld[l]),
                          IF how = "resolved" THEN "dyn_import_done" ELSE "dyn_import_error")
       /\ loads' = dyn_import_cb_loads([ld EXCEPT ![l].promise = how], fx)
       /\ dyn_import_map' = dyn_import_cb_map(dyn_import_map \ {l}, ld, fx)
       /\ ops' = SendOps(ops, fx)
       /\ runq' = SendRunq(runq, ops, fx)
       /\ runq_unref' = SendRunqUnref(runq_unref, ops, fx)
       /\ have_unpolled_ops' = SendUnpolled(have_unpolled_ops, fx)
       /\ dispatch_count' = RouteOp(dispatch_count, fx)
       /\ pending_promise_exceptions' = RejectExceptions(e, rejections, fx)
       /\ rejections' = RejectCount(rejections, fx)
       /\ woken' = dyn_import_cb_woken(woken, fx)
       /\ UNCHANGED <<pc, result, at_poll>>
  ELSE /\ Panic(InvalidDynImportId)
       /\ loads' = ld
       /\ UNCHANGED <<opvars, dyn_import_map, rejvars, woken, held>>

\* The promise of a failed import is resolved.
dyn_import_error_Resolves(l, ld, e, fx) == Settle(l, ld, e, "resolved", fx)

dyn_import_error(l, ld, e, fx) == Settle(l, ld, e, "rejected", fx)

dyn_import_done(l, ld, e, fx) == Settle(l, ld, e, "resolved", fx)

\* A load taken out of its FuturesUnordered set and not pushed back.
Dropped(ld, l) == [ld EXCEPT ![l].where = "gone"]

\* prepare_dyn_imports, one iteration: a load whose prepare future is ready
\* moves to pending_dyn_imports, or fails; with none ready the loop ends.
PollPrepareDynImports ==
  /\ pc = "prepare"
  /\ LET rdy == {l \in preparing_dyn_imports : loads[l].prep # "wait"}
         fresh == {l \in preparing_dyn_imports : Immediate /\ loads[l].prep = "wait"}
     IN  IF fresh # {}
         THEN \E l \in fresh :
                /\ IF ~ResolveAsserts(count)
                   THEN /\ count' = Prepare(count)
                        /\ loads' = [loads EXCEPT ![l].prep = "ok"]
                        /\ UNCHANGED <<pc, result>>
                   ELSE /\ count' = Resolve(count)
                        /\ loads' = loads
                        /\ Panic(ResolveAssert)
                /\ UNCHANGED <<opvars, dyn_import_map, regvars, rejvars, woken, held>>
         ELSE IF rdy = {}
         THEN /\ pc' = After("prepare")
              /\ UNCHANGED <<result, opvars, dynvars, rejvars, woken, held, count>>
         ELSE \E l \in rdy, fx \in Effects :
                /\ EffectEnabled(fx)
                /\ IF loads[l].prep = "ok"
                   THEN /\ fx.do = "none"
                        /\ loads' = [loads EXCEPT ![l].where = "pending"]
                        /\ UNCHANGED <<pc, result, opvars, dyn_import_map,
                                       rejvars, woken, held>>
                   ELSE dyn_import_error(l, Dropped(loads, l), pending_promise_exceptions, fx)
                /\ UNCHANGED <<regvars, count>>
  /\ UNCHANGED <<shared, overflow_response, js_recv_cb, js_macrotask_cb, initvars, delivered,
                 pulled, raised, trace>>

\* ----------------------------------------------------- module operations
RECURSIVE ReachFrom(_, _)
ReachFrom(S, n) ==
  IF n = 0 THEN S ELSE ReachFrom(S \cup UNION {Range(children[u]) : u \in S}, n - 1)

\* The modules the engine links when it instantiates id: module_resolve_cb
\* answers each import request of a module from the import specifiers the
\* module was registered with.
Reach(id) == ReachFrom({id}, Cardinality(Urls))

\* mod_instantiate: an Errored module surfaces its exception; linking asks
\* module_resolve_cb for every import, and an import missing from the
\* registry (id 0) is a link error.
InstantiateOk(m, id) ==
  /\ m[id] # "Errored"
  /\ m[id] = "Registered" => \A u \in Reach(id) : m[u] # "none"

Instantiated(m, id) ==
  [u \in Urls |-> IF u \in Reach(id) /\ m[u] = "Registered" THEN "Instantiated" ELSE m[u]]

\* mod_evaluate: an Instantiated module is evaluated (ev: what its script
\* does) and ends Evaluated or Errored; the result is Ok only for Evaluated.
Evaluated(m, id, ev) ==
  IF m[id] # "Instantiated"
  THEN m
  ELSE [u \in Urls |->
          IF u = id /\ (ev = "throw" \/ \E d \in Reach(id) : m[d] = "Errored")
          THEN "Errored"
          ELSE IF u \in Reach(id) /\ m[u] = "Instantiated" THEN "Evaluated" ELSE m[u]]

\* The identity of the promise that evaluating module `id` returns; the keys
\* of script-made rejections are positive.
PromiseId(id) == CASE id = "a" -> 0 - 1 [] id = "b" -> 0 - 2 [] OTHER -> 0 - 3

EvaluationPromises == {PromiseId(u) : u \in Urls}

\* The evaluation promise stays in the map.
EvalRemoved_Kept(e, promise_id) == e

\* mod_evaluate, after evaluate returned a promise:
\* state.pending_promise_exceptions.remove(&promise_id).
EvalRemoved(e, promise_id) == e \ {promise_id}

\* The pending-rejection map after mod_evaluate(id) on registry m: only an
\* Instantiated module is evaluated; when the evaluation fails its promise is
\* rejected with no handler, so the promise-reject callback records it, then
\* mod_evaluate removes that promise's entry.
EvalExceptions(e, m, id, ev) ==
  IF m[id] # "Instantiated"
  THEN e
  ELSE EvalRemoved(IF Evaluated(m, id, ev)[id] = "Errored"
                   THEN e \cup {PromiseId(id)}
                   ELSE e,
                   PromiseId(id))

\* register_during_load, after the module of `url` is in the registry m:
\* imports not yet registered join the load's pending work, the root's id is
\* stored, and the load is Done once nothing is pending.
\* The registry never finds a module.
GetId_Blind(m, url) == "none"

\* Modules::get_id: the id (here: the url) the registry holds for a url.
GetId(m, url) == IF m[url] = "none" THEN "none" ELSE url

\* register_during_load, the registry part: an alias is registered when the
\* source was found under another url than specified; a url that has an id
\* reuses it, and any other is compiled and registered by mod_new.
Aliased(al, specified) == IF specified # Found(specified) THEN al \cup {specified} ELSE al

\* ModuleSpecifier::resolve_import, which the loaders' resolve applies: a
\* specifier relative to the referrer names the url next to it; a specifier
\* with no prefix is an error.
ResolveImport(specifier, referrer) ==
  CASE specifier = "./a.js" -> "a"
    [] specifier = "./b.js" -> "b"
    [] specifier = "./d.js" -> "d"
    [] OTHER -> "err"

\* The import requests up to the first one the loader fails to resolve: the
\* requests mod_new's loop gets to.
RECURSIVE Asked(_, _)
Asked(reqs, name) ==
  IF reqs = <<>> THEN <<>>
  ELSE IF ResolveImport(Head(reqs), name) = "err" THEN <<Head(reqs)>>
  ELSE <<Head(reqs)>> \o Asked(Tail(reqs), name)

ResolveFails(reqs, name) == \E i \in 1..Len(reqs) : ResolveImport(reqs[i], name) = "err"

\* The dependency list in the reverse of the request order.
ImportSpecifiers_Reversed(reqs, name) ==
  [i \in 1..Len(reqs) |-> ResolveImport(reqs[Len(reqs) + 1 - i], name)]

\* mod_new's loop over get_module_request(i): each request is resolved
\* against the module's own name and pushed on import_specifiers.
ImportSpecifiers(reqs, name) == [i \in 1..Len(reqs) |-> ResolveImport(reqs[i], name)]

\* The calls of loader.resolve(&import_specifier, name, false) the loop makes.
ResolveCalls(reqs, name) == [i \in 1..Len(Asked(reqs, name)) |-> <<reqs[i], name>>]

\* Every root module is main, that of a dynamic import too.
IsMain_AnyRoot(load) == load.state = "LoadingRoot"

\* register_during_load: is_main is true for the module a load that is not
\* a dynamic import registers while it is in LoadingRoot.
IsMain(load) == load.state = "LoadingRoot" /\ load.where = "main"

\* mod_new on a source with the import requests reqs that compiles and
\* whose imports resolve: the module keeps its requests and is registered
\* with the resolved specifiers and the main flag it was given.
ModNewLinked(m, url, reqs, is_main) ==
  /\ main' = IF GetId(m, url) = "none" /\ is_main THEN main \cup {url} ELSE main
  /\ requests' = [requests EXCEPT ![url] = IF GetId(m, url) = "none" THEN reqs ELSE @]
  /\ children' =
       [children EXCEPT ![url] = IF GetId(m, url) = "none" THEN ImportSpecifiers(reqs, url) ELSE @]
  /\ resolve_calls' =
       IF GetId(m, url) = "none" THEN resolve_calls \o ResolveCalls(reqs, url) ELSE resolve_calls

\* mod_new on the source the loader serves for url.
ModNewLinks(m, url, is_main) == ModNewLinked(m, url, Requests(url), is_main)

\* What mod_new can return for a fetched source: an id, a compile error or
\* the error of the loader's resolve.  Only the redirecting loader serves a
\* source with an import that does not resolve.
ModNewOutcomes ==
  IF options.loader = "redirect" THEN {"ok", "err", "resolve"} ELSE {"ok", "err"}

\* A source whose import request the loader cannot resolve.
BadSource == <<"b.js">>

\* mod_new fails on the source fetched for url: a source that does not
\* compile returns before anything is resolved (why "err"); one with an
\* import that does not resolve (why "resolve") returns at that call of
\* loader.resolve.  Either way nothing is registered.
ModNewFailed(why, url) ==
  /\ resolve_calls' =
       IF why = "resolve" THEN resolve_calls \o ResolveCalls(BadSource, url) ELSE resolve_calls
  /\ UNCHANGED <<modules, registered, requests, children, main>>

ModNew(m, url) == [m EXCEPT ![url] = IF GetId(m, url) = "none" THEN "Registered" ELSE @]

ModNewCount(n, m, url) == [n EXCEPT ![url] = IF GetId(m, url) = "none" THEN @ + 1 ELSE @]

\* A load that is Done whatever it still waits for.
LoadState_DoneAtOnce(state, pendingEmpty) == "Done"

\* The tail of register_during_load: a load in LoadingRoot moves to
\* LoadingImports, and a load with nothing pending is Done.
LoadState(state, pendingEmpty) ==
  LET s1 == IF state = "LoadingRoot" THEN "LoadingImports" ELSE state
  IN  IF pendingEmpty THEN "Done" ELSE s1

RegisterDuringLoad(load, f, m) ==
  LET add == {u \in Imports(Found(f.url)) : m[u] = "none"} \ load.is_pending
      fetching == load.fetching \cup add
      fetched == load.fetched \ {f}
      wasRoot == load.state = "LoadingRoot"
  IN  [load EXCEPT
         !.fetching = fetching,
         !.fetched = fetched,
         !.is_pending = @ \cup add,
         !.root_module_id = IF wasRoot THEN Found(f.url) ELSE @,
         !.state = LoadState(load.state, fetching = {} /\ fetched = {})]

\* poll_dyn_imports, the arm for a fetched item of the load's stream: a load
\* error fails the import; a module source is registered (mod_new when the
\* url is new, which fails unless `reg` is "ok") and the load is pushed back.
PollDynItem(l, f, reg, fx) ==
  IF ~f.ok \/ (GetId(modules, Found(f.url)) = "none" /\ reg # "ok")
  THEN /\ f.ok \/ reg = "ok"
       /\ dyn_import_error(l, Dropped(loads, l), pending_promise_exceptions, fx)
       /\ alias' = IF f.ok THEN Aliased(alias, f.url) ELSE alias
       /\ ModNewFailed(reg, Found(f.url))
  ELSE /\ reg = "ok"
       /\ fx.do = "none"
       /\ alias' = Aliased(alias, f.url)
       /\ modules' = ModNew(modules, Found(f.url))
       /\ registered' = ModNewCount(registered, modules, Found(f.url))
       /\ ModNewLinks(modules, Found(f.url), IsMain(loads[l]))
       /\ loads' = [loads EXCEPT ![l] = RegisterDuringLoad(loads[l], f, modules')]
       /\ UNCHANGED <<pc, result, opvars, dyn_import_map, rejvars, woken, held>>

\* poll_dyn_imports, the arm for a finished stream: the root is instantiated
\* (an error leaves poll through `?`), evaluated, and the import is settled.
PollDynDone(l, ev, fx) ==
  LET id == loads[l].root_module_id
      m1 == Instantiated(modules, id)
      m2 == Evaluated(m1, id, ev)
  IN  IF ~InstantiateOk(modules, id)
      THEN /\ ev = "ok"
           /\ fx.do = "none"
           /\ pc' = "idle"
           /\ result' = "Err"
           /\ loads' = Dropped(loads, l)
           /\ held' = Entered(held, "instantiate")
           /\ UNCHANGED <<regvars, opvars, dyn_import_map, rejvars, woken>>
      ELSE /\ m1[id] # "Instantiated" => ev = "ok"
           /\ modules' = m2
           /\ UNCHANGED <<alias, registered, linkvars>>
           /\ IF m2[id] = "Evaluated"
              THEN dyn_import_done(l, Dropped(loads, l),
                                   EvalExceptions(pending_promise_exceptions, m1, id, ev), fx)
              ELSE dyn_import_error(l, Dropped(loads, l),
                                    EvalExceptions(pending_promise_exceptions, m1, id, ev), fx)

\* poll_dyn_imports, one iteration: the next load whose stream future is
\* ready is taken from pending_dyn_imports; with none ready the loop ends.
PollDynImports ==
  /\ pc = "dyn"
  /\ LET rdy == {l \in pending_dyn_imports :
                   loads[l].state = "Done" \/ loads[l].fetched # {}}
         fresh == {l \in pending_dyn_imports :
                     /\ Immediate
                     /\ loads[l].state = "LoadingRoot"
                     /\ loads[l].root \in loads[l].fetching}
     IN  IF fresh # {}
         THEN \E l \in fresh :
                /\ IF ~ResolveAsserts(count)
                   THEN /\ count' = AddRoot(count)
                        /\ loads' =
                             [loads EXCEPT
                                ![l].fetching = @ \ {loads[l].root},
                                ![l].fetched = @ \cup {LoadResult(loads[l].root)}]
                        /\ UNCHANGED <<pc, result>>
                   ELSE /\ count' = Resolve(count)
                        /\ loads' = loads
                        /\ Panic(ResolveAssert)
                /\ UNCHANGED <<opvars, dyn_import_map, regvars, rejvars, woken, held>>
         ELSE IF rdy = {}
         THEN /\ pc' = After("dyn")
              /\ UNCHANGED <<result, opvars, dynvars, rejvars, woken, held, count>>
         ELSE \E l \in rdy, fx \in Effects, ev \in {"ok", "throw"}, reg \in ModNewOutcomes :
                /\ EffectEnabled(fx)
                /\ Immediate => ev = "ok" /\ reg = "ok"
                /\ IF loads[l].state = "Done"
                   THEN reg = "ok" /\ PollDynDone(l, ev, fx)
                   ELSE ev = "ok" /\ \E f \in loads[l].fetched : PollDynItem(l, f, reg, fx)
                /\ UNCHANGED count
  /\ UNCHANGED <<shared, overflow_response, js_recv_cb, js_macrotask_cb, initvars, delivered,
                 pulled, raised, trace>>

\* Every recorded rejection leaves the map at once.
Surfaced_All(e, key) == {}

\* The map after the rejection under `key` was taken out to be returned.
Surfaced(e, key) == e \ {key}

\* check_promise_exceptions: one recorded rejection, if any, is removed from
\* the map and returned as the poll's error.
CheckPromiseExceptions(at, next) ==
  /\ pc = at
  /\ IF pending_promise_exceptions = {}
     THEN /\ pc' = next
          /\ result' = result
          /\ pending_promise_exceptions' = pending_promise_exceptions
     ELSE /\ \E key \in pending_promise_exceptions :
               pending_promise_exceptions' = Surfaced(pending_promise_exceptions, key)
          /\ pc' = "idle"
          /\ result' = "Err"
  /\ trace' = Trace(IF at = "check2" THEN Append(trace, "check2") ELSE trace, pc')
  /\ UNCHANGED <<rejections, at_poll, opvars, dynvars, shared, overflow_response, woken, js_recv_cb,
                 js_macrotask_cb, hostvars, held, delivered, pulled, raised>>

PollCheck1 == CheckPromiseExceptions("check1", After("check1"))

\* The overflow slot never takes a response.
OverflowSlot_Forgets(slot, item, fits) == slot

\* The overflow slot after a completed response was handled: a response that
\* does not fit takes the slot.
OverflowSlot(slot, item, fits) == IF fits THEN slot ELSE item

\* The op that held the slot before, whose response the assignment drops.
Displaced(slot, fits) == IF fits \/ slot = 0 THEN {} ELSE {slot}

\* The body of both pull loops: a completed response is pushed on the
\* SharedQueue or, if it does not fit, recorded as the overflow response.
Pulled(r, at, next) ==
  LET waiting == SetSt(ops, r.polled, "waiting")
  IN  IF r.item = 0
      THEN /\ ops' = waiting
           /\ pc' = next
           /\ UNCHANGED <<shared, overflow_response, pulled>>
      ELSE LET fits == PushFits(shared, ops[r.item].len)
           IN  /\ shared' = IF fits THEN Append(shared, r.item) ELSE shared
               /\ overflow_response' = OverflowSlot(overflow_response, r.item, fits)
               /\ ops' = SetSt(SetSt(waiting, Displaced(overflow_response, fits), "overwritten"),
                               {r.item}, IF fits THEN "shared" ELSE "overflow")
               /\ pulled' = Append(pulled, r.item)
               /\ pc' = IF fits THEN at ELSE next

\* One iteration of the loop over pending_ops.
PullReffed ==
  /\ pc = "ops"
  /\ have_unpolled_ops' = FALSE
  /\ runq' = PollNextUnpin(runq).rest
  /\ Pulled(PollNextUnpin(runq), "ops", After("ops"))
  /\ UNCHANGED dispatch_count
  /\ UNCHANGED <<result, runq_unref, dynvars, woken, js_recv_cb, js_macrotask_cb, hostvars, held,
                 rejvars, delivered, raised, trace>>

\* One iteration of the loop over pending_unref_ops.
PullUnref ==
  /\ pc = "unref"
  /\ runq_unref' = PollNextUnpin(runq_unref).rest
  /\ Pulled(PollNextUnpin(runq_unref), "unref", After("unref"))
  /\ UNCHANGED dispatch_count
  /\ UNCHANGED <<result, runq, have_unpolled_ops, dynvars, woken, js_recv_cb,
                 js_macrotask_cb, hostvars, held, rejvars, delivered, raised, trace>>

\* The poll goes on after a callback that returned, drained or not.
AfterBatch_NoAssert(k, out) == IF out = "throw" THEN "idle" ELSE After("batch")

\* Where the poll goes after the batch callback shifted k of the queued
\* responses and returned or threw: assert_eq!(state.shared.size(), 0)
\* follows a callback that returned.
AfterBatch(k, out) ==
  CASE out = "throw" -> "idle"
    [] out = "return" /\ k = Len(shared) -> After("batch")
    [] OTHER -> "dead"

AfterBatchResult(k, out) ==
  CASE out = "throw" -> "Err"
    [] out = "return" /\ k = Len(shared) -> result
    [] OTHER -> NotDrained

\* The callback is never found missing.
RecvMissing_Never == FALSE

\* async_op_response: the receive callback must have been registered
\* (expect("Deno.core.recv has not been called.")).
RecvMissing == ~js_recv_cb

\* async_op_response(scope, None), taken when shared.size() > 0.  The script
\* side shifts responses off the queue and hands each to its handler; it may
\* throw, and it may return before the queue is empty.  An error return
\* drops the overflow response poll still holds.
PollBatch ==
  /\ pc = "batch"
  /\ IF SharedSize = 0
     THEN /\ pc' = After("batch")
          /\ UNCHANGED <<result, opvars, loads, dyn_import_map, woken, shared,
                         overflow_response, rejvars, delivered, raised, trace>>
     ELSE IF RecvMissing
     THEN /\ Panic(RecvNotCalled)
          /\ UNCHANGED <<opvars, loads, dyn_import_map, woken, shared, overflow_response,
                         rejvars, delivered, raised, trace>>
     ELSE \E k \in 0..Len(shared), out \in {"return", "throw"}, fx \in Effects :
            LET got == {shared[j] : j \in 1..k}
                keep == AfterBatch(k, out) = After("batch")
                lost == IF keep \/ overflow_response = 0 THEN {} ELSE {overflow_response}
            IN  /\ EffectEnabled(fx)
                /\ delivered' = delivered \o SubSeq(shared, 1, k)
                /\ shared' = SubSeq(shared, k + 1, Len(shared))
                /\ ops' = SendOps(SetSt(SetSt(ops, got, "delivered"), lost, "discarded"), fx)
                /\ runq' = SendRunq(runq, ops, fx)
                /\ runq_unref' = SendRunqUnref(runq_unref, ops, fx)
                /\ have_unpolled_ops' = SendUnpolled(have_unpolled_ops, fx)
                /\ dispatch_count' = RouteOp(dispatch_count, fx)
                /\ pending_promise_exceptions' =
                     RejectExceptions(pending_promise_exceptions, rejections, fx)
                /\ rejections' = RejectCount(rejections, fx)
                /\ at_poll' = at_poll
                /\ loads' = dyn_import_cb_loads(loads, fx)
                /\ dyn_import_map' = dyn_import_cb_map(dyn_import_map, loads, fx)
                /\ woken' = dyn_import_cb_woken(woken, fx)
                /\ pc' = AfterBatch(k, out)
                /\ trace' = Trace(Append(trace, "batch"), pc')
                /\ result' = AfterBatchResult(k, out)
                /\ raised' = (raised \/ out = "throw")
                /\ overflow_response' = IF keep THEN overflow_response ELSE 0
  /\ UNCHANGED <<regvars, js_recv_cb, js_macrotask_cb, hostvars, pulled>>
  /\ held' = IF SharedSize > 0 /\ ~RecvMissing THEN Entered(held, "batch") ELSE held

\* The overflow response is handed over again for as long as the slot holds it.
OverflowTaken_Again(slot, out) ==
  [slot |-> slot, pc |-> IF out = "throw" THEN "idle" ELSE "overflow"]

\* `if let Some(..) = overflow_response.take() { async_op_response(..)?; }`:
\* the slot is emptied, and the poll goes on unless the callback threw.
OverflowTaken(slot, out) ==
  [slot |-> 0, pc |-> IF out = "throw" THEN "idle" ELSE After("overflow")]

\* async_op_response(scope, Some((op_id, buf))) for the overflow response.
\* boxed_slice_to_uint8array asserts the buffer is not empty.
PollOverflow ==
  /\ pc = "overflow"
  /\ IF overflow_response = 0
     THEN /\ pc' = After("overflow")
          /\ UNCHANGED <<result, opvars, loads, dyn_import_map, woken, overflow_response,
                         rejvars, delivered, raised, trace>>
     ELSE IF RecvMissing \/ ops[overflow_response].len = 0
     THEN /\ Panic(IF RecvMissing THEN RecvNotCalled ELSE EmptyBuf)
          /\ UNCHANGED <<opvars, loads, dyn_import_map, woken, overflow_response,
                         rejvars, delivered, raised, trace>>
     ELSE \E out \in {"return", "throw"}, fx \in Effects :
            /\ EffectEnabled(fx)
            /\ delivered' = Append(delivered, overflow_response)
            /\ AfterScript({overflow_response}, fx)
            /\ overflow_response' = OverflowTaken(overflow_response, out).slot
            /\ pc' = OverflowTaken(overflow_response, out).pc
            /\ trace' = Trace(Append(trace, "overflow"), pc')
            /\ result' = IF out = "throw" THEN "Err" ELSE result
            /\ raised' = (raised \/ out = "throw")
  /\ UNCHANGED <<regvars, shared, js_recv_cb, js_macrotask_cb, hostvars, pulled>>
  /\ held' = IF overflow_response # 0 /\ ~RecvMissing /\ ops[overflow_response].len # 0
            THEN Entered(held, "overflow") ELSE held

\* drain_macrotasks: without a callback nothing is called; otherwise the
\* callback is called (one call per step) until a call returns true or
\* throws.
\* An exception of the callback is not taken as the end of the loop.
AfterMacrotask_IgnoresThrow(out) ==
  IF out = "false" THEN "macro" ELSE After("macro")

\* Where drain_macrotasks goes after one invocation of the callback: it
\* returns the error if the call threw, leaves the loop if the call returned
\* true, and calls again otherwise.
AfterMacrotask(out) ==
  CASE out = "false" -> "macro" [] out = "true" -> After("macro") [] OTHER -> "idle"

PollMacrotasks ==
  /\ pc = "macro"
  /\ IF ~js_macrotask_cb
     THEN /\ pc' = After("macro")
          /\ UNCHANGED <<result, opvars, loads, dyn_import_map, woken,
                         rejvars, raised, trace>>
     ELSE \E out \in {"false", "true", "throw"}, fx \in Effects :
            /\ EffectEnabled(fx)
            /\ out = "false" => MacroCalls(trace) < MaxMacro
            /\ AfterScript({}, fx)
            /\ pc' = AfterMacrotask(out)
            /\ trace' = Trace(Append(trace, "macro"), pc')
            /\ result' = IF out = "throw" THEN "Err" ELSE result
            /\ raised' = (raised \/ out = "throw")
  /\ UNCHANGED <<regvars, shared, overflow_response, js_recv_cb, js_macrotask_cb, hostvars, delivered,
                 pulled>>
  /\ held' = IF js_macrotask_cb THEN Entered(held, "macrotask") ELSE held

PollCheck2 == CheckPromiseExceptions("check2", After("check2"))

\* The end of poll: Ready(Ok) when pending_ops, pending_dyn_imports and
\* preparing_dyn_imports are empty; otherwise Pending, after waking itself
\* if script fired ops this poll has not polled.
\* Readiness that ignores loads being fetched.
PollIsIdle_NoPendingDyn ==
  /\ pending_ops = {}
  /\ preparing_dyn_imports = {}

\* Readiness that waits for unreffed ops too.
PollIsIdle_CountsUnref ==
  /\ pending_ops = {}
  /\ pending_unref_ops = {}
  /\ pending_dyn_imports = {}
  /\ preparing_dyn_imports = {}

PollIsIdle ==
  /\ pending_ops = {}
  /\ pending_dyn_imports = {}
  /\ preparing_dyn_imports = {}

PollFinish ==
  /\ pc = "finish"
  /\ pc' = After("finish")
  /\ result' = IF PollIsIdle THEN "Ready" ELSE "Pending"
  /\ woken' = IF ~PollIsIdle /\ have_unpolled_ops THEN TRUE ELSE woken
  /\ trace' = <<>>
  /\ UNCHANGED <<count, opvars, dynvars, shared, overflow_response, js_recv_cb, js_macrotask_cb, initvars, held,
                 rejvars, delivered, pulled, raised>>

Next ==
  \/ \E fx \in Effects : Execute(fx)
  \/ ExecuteRecv
  \/ ExecuteSetMacrotaskCallback
  \/ \E i \in 1..Len(ops) : Complete(i)
  \/ \E l \in 1..Len(loads), r \in {"ok", "err"} : PrepareDone(l, r)
  \/ \E l \in 1..Len(loads), u \in Specifiers, ok \in BOOLEAN : FetchDone(l, u, ok)
  \/ PollStart
  \/ PollPrepareDynImports
  \/ PollDynImports
  \/ PollCheck1
  \/ PullReffed
  \/ PullUnref
  \/ PollBatch
  \/ PollOverflow
  \/ PollMacrotasks
  \/ PollCheck2
  \/ PollFinish

Spec == Init /\ [][Next]_vars

\* ------------------------------------------------- loading main modules
\* RecursiveModuleLoad::main: like a dynamic import's load, without a
\* promise to settle.
MainLoad(root) == [NewLoad(root) EXCEPT !.where = "main", !.promise = "none"]

\* load_module entered: the load is created and its prepare step awaited.
\* The future borrows the runtime until it returns, so nothing else runs on
\* the runtime meanwhile.
LoadModule(root) ==
  /\ pc = "idle"
  /\ root \in Served
  /\ Len(ops) + Len(loads) + rejections < MaxEffects
  /\ pc' = "load"
  /\ result' = "none"
  /\ loads' = Append(loads, MainLoad(root))
  /\ UNCHANGED <<trace, opvars, dyn_import_map, regvars, shared, overflow_response, woken,
                 js_recv_cb, js_macrotask_cb, rejvars, delivered, pulled, raised>>
  /\ SharedInit(FALSE)
  /\ UNCHANGED <<held, count>>

\* The load load_module is driving.
MainLoadId == CHOOSE l \in 1..Len(loads) : loads[l].where = "main"

\* load_module returns: the load is dropped.
LoadModuleReturns(ld, res) ==
  /\ pc' = "idle"
  /\ result' = res
  /\ loads' = Dropped(ld, MainLoadId)

\* load_module resumed after an await: a failed prepare or a failed fetch is
\* returned; a fetched source is registered (an error of mod_new is
\* returned); when the stream ends the root is instantiated and its id
\* returned.
LoadModuleStep(reg) ==
  /\ pc = "load"
  /\ LET l == MainLoadId
         load == loads[l]
     IN  /\ load.prep # "wait"
         /\ IF load.prep = "err"
            THEN /\ reg = "ok"
                 /\ LoadModuleReturns(loads, "Err")
                 /\ UNCHANGED regvars
            ELSE IF load.state = "Done"
            THEN /\ reg = "ok"
                 /\ IF InstantiateOk(modules, load.root_module_id)
                    THEN /\ modules' = Instantiated(modules, load.root_module_id)
                         /\ LoadModuleReturns(loads, "Ok")
                    ELSE /\ modules' = modules
                         /\ LoadModuleReturns(loads, "Err")
                 /\ UNCHANGED <<alias, registered, linkvars>>
            ELSE \E f \in load.fetched :
                   IF ~f.ok \/ (GetId(modules, Found(f.url)) = "none" /\ reg # "ok")
                   THEN /\ f.ok \/ reg = "ok"
                        /\ LoadModuleReturns(loads, "Err")
                        /\ alias' = IF f.ok THEN Aliased(alias, f.url) ELSE alias
                        /\ ModNewFailed(reg, Found(f.url))
                   ELSE /\ reg = "ok"
                        /\ alias' = Aliased(alias, f.url)
                        /\ modules' = ModNew(modules, Found(f.url))
                        /\ registered' = ModNewCount(registered, modules, Found(f.url))
                        /\ ModNewLinks(modules, Found(f.url), IsMain(load))
                        /\ loads' = [loads EXCEPT ![l] = RegisterDuringLoad(load, f, modules')]
                        /\ UNCHANGED <<pc, result>>
  /\ UNCHANGED <<trace, opvars, dyn_import_map, shared, overflow_response, woken,
                 js_recv_cb, js_macrotask_cb, hostvars, rejvars, delivered, pulled, raised>>
  /\ held' = IF loads[MainLoadId].prep = "ok" /\ loads[MainLoadId].state = "Done"
            THEN Entered(held, "instantiate") ELSE held

\* mod_evaluate called by the embedder on a module that went through
\* mod_instantiate: an Instantiated module is evaluated (ev, and fx for what
\* its script does); the result is Ok only when the module ends Evaluated.
ModEvaluate(id, ev, fx) ==
  /\ pc = "idle"
  /\ modules[id] \in {"Instantiated", "Evaluated", "Errored"}
  /\ EffectEnabled(fx)
  /\ modules[id] # "Instantiated" => ev = "ok" /\ fx.do = "none"
  /\ modules' = Evaluated(modules, id, ev)
  /\ result' = IF modules'[id] = "Evaluated" THEN "Ok" ELSE "Err"
  /\ ops' = SendOps(ops, fx)
  /\ runq' = SendRunq(runq, ops, fx)
  /\ runq_unref' = SendRunqUnref(runq_unref, ops, fx)
  /\ have_unpolled_ops' = SendUnpolled(have_unpolled_ops, fx)
  /\ dispatch_count' = RouteOp(dispatch_count, fx)
  /\ pending_promise_exceptions' =
       EvalExceptions(RejectExceptions(pending_promise_exceptions, rejections, fx),
                      modules, id, ev)
  /\ rejections' = RejectCount(rejections, fx)
  /\ at_poll' = at_poll
  /\ loads' = dyn_import_cb_loads(loads, fx)
  /\ dyn_import_map' = dyn_import_cb_map(dyn_import_map, loads, fx)
  /\ woken' = dyn_import_cb_woken(woken, fx)
  /\ UNCHANGED <<pc, trace, alias, registered, linkvars, shared, overflow_response, js_recv_cb,
                 js_macrotask_cb, delivered, pulled, raised>>
  /\ SharedInit(TRUE)
  /\ UNCHANGED count
  /\ held' = IF modules[id] = "Instantiated" THEN Entered(held, "evaluate") ELSE held

\* A runtime whose loader redirects and whose op router answers no async op.
InitLoad ==
  InitWith([op_router |-> "none", loader |-> "redirect", startup |-> "none", awaits |-> <<>>])

NextLoad ==
  \/ \E fx \in Effects : Execute(fx)
  \/ \E root \in Specifiers : LoadModule(root)
  \/ \E reg \in ModNewOutcomes : LoadModuleStep(reg)
  \/ \E id \in Urls, ev \in {"ok", "throw"}, fx \in Effects : ModEvaluate(id, ev, fx)
  \/ \E l \in 1..Len(loads), r \in {"ok", "err"} : PrepareDone(l, r)
  \/ \E l \in 1..Len(loads), u \in Specifiers, ok \in BOOLEAN : FetchDone(l, u, ok)
  \/ PollStart
  \/ PollPrepareDynImports
  \/ PollDynImports
  \/ PollCheck1
  \/ PullReffed
  \/ PullUnref
  \/ PollBatch
  \/ PollOverflow
  \/ PollMacrotasks
  \/ PollCheck2
  \/ PollFinish

SpecLoad == InitLoad /\ [][NextLoad]_vars

\* The same embedder over a loader that serves the chain of three modules.
InitChain ==
  InitWith([op_router |-> "none", loader |-> "chain", startup |-> "none", awaits |-> <<>>])

SpecChain == InitChain /\ [][NextLoad]_vars

\* ------------------------------------------- modules made by the embedder
\* The import requests a source can hold: two relative specifiers and one
\* with no prefix, which no loader resolves.
ImportRequests == {"./a.js", "./b.js", "b.js"}

\* The sources mod_new is given, as the lists of their import requests.
Sources ==
  {q \in UNION {[1..k -> ImportRequests] : k \in 0..MaxRequests} :
     \A i, j \in 1..Len(q) : i # j => q[i] # q[j]}

\* mod_new(main, name, source) called by the embedder for a name that has no
\* module yet: a source that does not compile (reg "err") is an error with
\* nothing done; otherwise each import request is resolved in turn, the
\* first failure is returned with nothing registered, and when all resolve
\* the module is registered.  Nothing of the module runs.  As in
\* tests::test_mods, a.js is created as the main module and b.js is not.
ModNewCall(name, reqs, reg) ==
  /\ pc = "idle"
  /\ GetId(modules, name) = "none"
  /\ Len(resolve_calls) + Len(reqs) <= MaxResolves
  /\ IF reg = "err"
     THEN /\ reqs = <<>>
          /\ result' = "Err"
          /\ UNCHANGED regvars
     ELSE IF ResolveFails(reqs, name)
     THEN /\ result' = "Err"
          /\ resolve_calls' = resolve_calls \o ResolveCalls(reqs, name)
          /\ UNCHANGED <<modules, alias, registered, requests, children, main>>
     ELSE /\ result' = "Ok"
          /\ modules' = ModNew(modules, name)
          /\ registered' = ModNewCount(registered, modules, name)
          /\ ModNewLinked(modules, name, reqs, name = "a")
          /\ UNCHANGED alias
  /\ UNCHANGED <<pc, trace, opvars, loads, dyn_import_map, shared, overflow_response, woken,
                 js_recv_cb, js_macrotask_cb, hostvars, held, rejvars, delivered, pulled, raised>>

\* Module ids are the engine's identity hashes; "0" and "7" stand for the
\* id 0 and for another id that mod_new never returned.
ModuleNotFound == "module id 7 not found in module table"

\* An id the table does not hold is an error like a failed link.
MissingModule_Err(id) == "Err"

\* mod_instantiate, the match on get_info(id) when the table has no module
\* under id: Ok for id 0, a panic for any other id.
MissingModule(id) == IF id = "0" THEN "Ok" ELSE ModuleNotFound

\* mod_instantiate(id) called by the embedder, with the id of a registered
\* module or with an id the table does not hold.
ModInstantiateCall(id) ==
  /\ pc = "idle"
  /\ id \in Urls => modules[id] # "none"
  /\ IF id \notin Urls
     THEN /\ result' = MissingModule(id)
          /\ pc' = IF MissingModule(id) = ModuleNotFound THEN "dead" ELSE pc
          /\ UNCHANGED <<modules, held>>
     ELSE /\ IF InstantiateOk(modules, id)
             THEN /\ modules' = Instantiated(modules, id)
                  /\ result' = "Ok"
             ELSE /\ modules' = modules
                  /\ result' = "Err"
          /\ held' = Entered(held, "instantiate")
          /\ pc' = pc
  /\ UNCHANGED <<trace, opvars, loads, dyn_import_map, alias, registered, linkvars, shared,
                 overflow_response, woken, js_recv_cb, js_macrotask_cb, hostvars, rejvars,
                 delivered, pulled, raised>>

\* A runtime whose modules the embedder creates, instantiates and evaluates
\* itself; its loader is asked to resolve only.
InitMods ==
  InitWith([op_router |-> "async", loader |-> "none", startup |-> "none", awaits |-> <<>>])

NextMods ==
  \/ \E name \in Urls, reqs \in Sources, reg \in {"ok", "err"} : ModNewCall(name, reqs, reg)
  \/ \E id \in Urls \cup {"0", "7"} : ModInstantiateCall(id)
  \/ \E id \in Urls, ev \in {"ok", "throw"}, fx \in Effects : ModEvaluate(id, ev, fx)

SpecMods == InitMods /\ [][NextMods]_vars

\* ---------------------------------------------------------- snapshots
UnwrapNone == "called Option::unwrap() on a None value"

SnapshotAssert == "assertion failed: self.snapshot_creator.is_some()"

StartupSnapshotAssert == "assertion failed: options.startup_snapshot.is_none()"

\* The order in which the serializer visits the globals.
GlobalOrder == <<"a", "b">>

\* SnapshotCreator::create_blob: the heap written out, one entry per global
\* that is defined.
Serialize(h) ==
  SelectSeq([i \in 1..Len(GlobalOrder) |-> <<GlobalOrder[i], h[GlobalOrder[i]]>>],
            LAMBDA e : e[2] # 0)

\* Vec::from(snap).into_boxed_slice(): the bytes copied one by one.
Boxed(bytes) == [i \in 1..Len(bytes) |-> bytes[i]]

\* The data handed to params.snapshot_blob for a Snapshot of representation
\* repr made from the blob b.
SnapshotBlob(repr, b) == IF repr = "Boxed" THEN Boxed(b) ELSE b

\* The isolate starts with an empty heap whatever the blob holds.
Deserialize_Fresh(data) == [g \in Globals |-> 0]

\* v8::Isolate::new with a snapshot blob: the heap read back.
Deserialize(data) ==
  [g \in Globals |->
     IF \E i \in 1..Len(data) : data[i][1] = g
     THEN data[CHOOSE i \in 1..Len(data) : data[i][1] = g][2]
     ELSE 0]

\* The heap a runtime starts with.
StartupHeap(startup, b) ==
  IF startup = "none" THEN [g \in Globals |-> 0] ELSE Deserialize(SnapshotBlob(startup, b.bytes))

\* The registry is left as it is.
TakeModules_Kept(m) == m

\* std::mem::take(&mut state.modules): the registry is replaced by an empty one.
TakeModules(m) == [u \in Urls |-> "none"]

\* Drop for JsRuntime, the isolate: with a snapshot builder it is taken out
\* and forgotten; without one the field is dropped with the struct.
IsolateAfterDrop(creator) == IF creator = "some" THEN "leaked" ELSE "dropped"

\* Drop for JsRuntime, the builder: `creator` is a local of the `if let`
\* block that owns the builder taken out of the field.  With has_snapshotted
\* it is passed to drop(); otherwise nothing moves it and it is dropped where
\* the block ends.
CreatorAfterDrop(creator, snapshotted) ==
  CASE creator # "some" -> creator
    [] snapshotted -> "dropped"
    [] OTHER -> "dropped"

\* The calls below need the runtime and, but for snapshot, its context.
Owned == pc = "idle" /\ v8_isolate = "owned"

\* execute of the script `g = 1 + 2`.
ExecuteAssign(g) ==
  /\ Owned
  /\ global_context
  /\ heap' = [heap EXCEPT ![g] = 1 + 2]
  /\ result' = "Ok"
  /\ SharedInitRuns(TRUE)
  /\ held' = Entered(held, "execute")
  /\ UNCHANGED <<pc, options, termvars, count, loopvars, v8_isolate, snapshot_creator,
                 has_snapshotted, global_context, blob, snapped, seen, runtimes, allocvars>>

\* execute of the script `if (g != 3) throw Error('x')`.
ExecuteCheck(g) ==
  /\ Owned
  /\ global_context
  /\ result' = IF heap[g] = 3 THEN "Ok" ELSE "Err"
  /\ seen' = IF heap[g] = 3 THEN seen \cup {g} ELSE seen
  /\ SharedInitRuns(TRUE)
  /\ held' = Entered(held, "execute")
  /\ UNCHANGED <<pc, options, termvars, count, loopvars, v8_isolate, snapshot_creator,
                 has_snapshotted, global_context, heap, blob, snapped, runtimes, allocvars>>

\* execute, mod_new, mod_instantiate or mod_evaluate on a runtime whose
\* context handle snapshot() took: global_context.as_ref().unwrap() panics.
\* execute and mod_evaluate (init) go through shared_init first, which
\* clears needs_init before its own execute of core.js panics.
UseAfterSnapshot(init) ==
  /\ Owned
  /\ ~global_context
  /\ Panic(UnwrapNone)
  /\ needs_init' = IF init THEN NeedsInitAfter(needs_init) ELSE needs_init
  /\ UNCHANGED <<options, snapvars, startup_script, ran, termvars, count, loopvars, held>>

\* snapshot() up to create_blob: the assert, then the context handle and the
\* module registry are taken out of the RuntimeState.
SnapshotBegin ==
  /\ Owned
  /\ ~has_snapshotted
  /\ IF snapshot_creator # "some"
     THEN /\ Panic(SnapshotAssert)
          /\ UNCHANGED <<global_context, regvars>>
     ELSE /\ pc' = "snapshot"
          /\ result' = "none"
          /\ global_context' = FALSE
          /\ modules' = TakeModules(modules)
          /\ alias' = {}
          /\ requests' = [u \in Urls |-> <<>>]
          /\ children' = [u \in Urls |-> <<>>]
          /\ main' = {}
          /\ UNCHANGED <<registered, resolve_calls>>
  /\ UNCHANGED <<options, v8_isolate, snapshot_creator, has_snapshotted, heap, blob, snapped,
                 seen, runtimes, allocvars, needs_init, startup_script, ran, termvars, count, held, trace,
                 opvars, loads, dyn_import_map, shared, overflow_response, woken, js_recv_cb,
                 js_macrotask_cb, rejvars, delivered, pulled, raised>>

\* snapshot(), create_blob and after: the blob is made, has_snapshotted is
\* set and the blob returned.
SnapshotCreateBlob ==
  /\ pc = "snapshot"
  /\ blob' = [taken |-> TRUE, bytes |-> Serialize(heap)]
  /\ snapped' = heap
  /\ has_snapshotted' = TRUE
  /\ pc' = "idle"
  /\ result' = "Ok"
  /\ UNCHANGED <<options, v8_isolate, snapshot_creator, global_context, heap, seen, runtimes,
                 allocvars, needs_init, startup_script, ran, termvars, count, loopvars, held>>

\* The runtime is dropped, by its owner or by the unwinding of a panic.
DropRuntime ==
  /\ pc \in {"idle", "dead"}
  /\ v8_isolate = "owned"
  /\ pc' = "dropped"
  /\ v8_isolate' = IsolateAfterDrop(snapshot_creator)
  /\ snapshot_creator' = CreatorAfterDrop(snapshot_creator, has_snapshotted)
  /\ near_heap_limit_callback_data' = <<>>
  /\ freed' = freed \cup {near_heap_limit_callback_data[i].data :
                              i \in 1..Len(near_heap_limit_callback_data)}
  /\ heap_callbacks' = IF v8_isolate' = "dropped" THEN <<>> ELSE heap_callbacks
  /\ UNCHANGED invoke_count
  /\ UNCHANGED <<result, options, has_snapshotted, global_context, heap, blob, snapped, seen,
                 runtimes, needs_init, startup_script, ran, termvars, count, loopvars, held>>

\* JsRuntime::from_options for the next runtime, once the one before is
\* gone: startup data none or a Snapshot (just created, or boxed bytes) of
\* the blob taken before.  will_snapshot together with a startup snapshot
\* fails the assert and no runtime comes into being.
FromOptions(startup, will_snapshot) ==
  /\ pc = "dropped"
  /\ runtimes < MaxRuntimes
  /\ startup # "none" => blob.taken
  /\ runtimes' = runtimes + 1
  /\ IF will_snapshot /\ startup # "none"
     THEN /\ Panic(StartupSnapshotAssert)
          /\ v8_isolate' = "none"
          /\ snapshot_creator' = "none"
          /\ global_context' = FALSE
     ELSE /\ pc' = "idle"
          /\ result' = "none"
          /\ v8_isolate' = "owned"
          /\ snapshot_creator' = (IF will_snapshot THEN "some" ELSE "none")
          /\ global_context' = TRUE
  /\ heap' = IF will_snapshot THEN [g \in Globals |-> 0] ELSE StartupHeap(startup, blob)
  /\ options' = [options EXCEPT !.startup = startup]
  /\ has_snapshotted' = FALSE
  /\ seen' = {}
  /\ needs_init' = TRUE
  /\ startup_script' = "none"
  /\ ran' = <<>>
  /\ held' = 0
  /\ ops' = <<>>
  /\ runq' = <<>>
  /\ runq_unref' = <<>>
  /\ have_unpolled_ops' = FALSE
  /\ dispatch_count' = 0
  /\ shared' = <<>>
  /\ overflow_response' = 0
  /\ woken' = FALSE
  /\ js_recv_cb' = FALSE
  /\ js_macrotask_cb' = FALSE
  /\ pending_promise_exceptions' = {}
  /\ rejections' = 0
  /\ at_poll' = {}
  /\ delivered' = <<>>
  /\ pulled' = <<>>
  /\ raised' = FALSE
  /\ trace' = <<>>
  /\ loads' = <<>>
  /\ dyn_import_map' = {}
  /\ modules' = [u \in Urls |-> "none"]
  /\ alias' = {}
  /\ registered' = [u \in Urls |-> 0]
  /\ requests' = [u \in Urls |-> <<>>]
  /\ children' = [u \in Urls |-> <<>>]
  /\ resolve_calls' = <<>>
  /\ main' = {}
  /\ near_heap_limit_callback_data' = <<>>
  /\ heap_callbacks' = <<>>
  /\ invoke_count' = <<>>
  /\ freed' = {}
  /\ count' = [prepare_load |-> 0, resolve |-> 0, load |-> 0, polls |-> 0]
  /\ UNCHANGED <<blob, snapped, termvars>>

\* The first runtime: with or without will_snapshot, no startup data.
InitSnapshot ==
  \E will_snapshot \in BOOLEAN :
    Constructed([op_router |-> "none", loader |-> "none", startup |-> "none", awaits |-> <<>>],
                will_snapshot)

NextSnapshot ==
  \/ \E g \in Globals : ExecuteAssign(g)
  \/ \E g \in Globals : ExecuteCheck(g)
  \/ \E name \in Urls : Owned /\ global_context /\ ModNewCall(name, Requests(name), "ok")
  \/ \E id \in Urls : Owned /\ global_context /\ ModInstantiateCall(id)
  \/ \E id \in Urls, ev \in {"ok", "throw"} :
       Owned /\ global_context /\ ModEvaluate(id, ev, [do |-> "none"])
  \/ \E init \in BOOLEAN : UseAfterSnapshot(init)
  \/ SnapshotBegin
  \/ SnapshotCreateBlob
  \/ DropRuntime
  \/ \E startup \in {"none", "JustCreated", "Boxed"}, will_snapshot \in BOOLEAN :
       FromOptions(startup, will_snapshot)

SpecSnapshot == InitSnapshot /\ [][NextSnapshot]_vars

\* ------------------------------------------------------- startup data
UnwrapErr == "called Result::unwrap() on an Err value"

\* The first call of execute, mod_evaluate, load_module or poll on a runtime
\* whose startup script throws: shared_init panics after it ran core.js and
\* the startup script.
SharedInitPanics ==
  /\ pc = "idle"
  /\ StartupPanics
  /\ Panic(UnwrapErr)
  /\ needs_init' = NeedsInitAfter(needs_init)
  /\ startup_script' = "none"
  /\ ran' = Bootstrapped(ran, needs_init, startup_script)
  /\ UNCHANGED <<count, options, snapvars, termvars, loopvars, held>>

\* The startup data a runtime can be constructed with: none, a script (that
\* returns or throws) or a snapshot.
StartupOptions ==
  {[op_router |-> "none", loader |-> "plain", startup |-> st, awaits |-> <<>>] :
     st \in {"none", "script", "throws", "snapshot"}}

InitStartup == \E o \in StartupOptions : InitWith(o)

NextStartup == NextLoad \/ SharedInitPanics

SpecStartup == InitStartup /\ [][NextStartup]_vars

\* ------------------------------------------------- a loader that counts
\* tests::dyn_import_ok: a runtime constructed with a counting loader executes
\* a script that awaits its imports of ./b.js one after the other, and is
\* then polled again and again (the script is executed before the first poll).
\* tests::dyn_import_err: the same with a loader whose load fails and a
\* script that awaits its imports of /foo.js.
CountOptions ==
  {[op_router |-> "none", loader |-> "counting", startup |-> "none",
    awaits |-> [k \in 1..n |-> "b"]] : n \in 1..MaxAwaits}
  \cup
  {[op_router |-> "none", loader |-> "failing", startup |-> "none",
    awaits |-> [k \in 1..n |-> "foo"]] : n \in 1..MaxAwaits}

InitCount == \E o \in CountOptions : InitWith(o)

NextCount ==
  \/ \E fx \in Effects : Execute(fx)
  \/ PollStart
  \/ PollPrepareDynImports
  \/ PollDynImports
  \/ PollCheck1
  \/ PullReffed
  \/ PullUnref
  \/ PollBatch
  \/ PollOverflow
  \/ PollMacrotasks
  \/ PollCheck2
  \/ PollFinish

SpecCount == InitCount /\ [][NextCount]_vars

\* ------------------------------------------------- the tests' op router
\* A runtime constructed with a router that knows one op and answers it
\* synchronously or asynchronously, for requests and responses of any size.
InitSend ==
  InitWith([op_router |-> "test", loader |-> "none", startup |-> "none", awaits |-> <<>>])

NextSend ==
  \/ \E fx \in Effects : Execute(fx)
  \/ ExecuteRecv
  \/ \E i \in 1..Len(ops) : Complete(i)
  \/ PollStart
  \/ PollPrepareDynImports
  \/ PollDynImports
  \/ PollCheck1
  \/ PullReffed
  \/ PullUnref
  \/ PollBatch
  \/ PollOverflow
  \/ PollMacrotasks
  \/ PollCheck2
  \/ PollFinish

SpecSend == InitSend /\ [][NextSend]_vars

\* The same embedder over an op router whose responses may be empty.
InitEmpty ==
  InitWith([op_router |-> "empty", loader |-> "none", startup |-> "none", awaits |-> <<>>])

SpecEmpty == InitEmpty /\ [][NextSend]_vars

\* ------------------------------------------- termination during execute
TerminatedMsg == "Uncaught Error: execution terminated"

ThrownMsg == "Uncaught Error: thrown"

NullMsg == "Uncaught null"

\* Scripts handed to execute: `for(;;) {}`, one that returns a value and one
\* that throws an Error.
Scripts == {"loop", "simple", "throws"}

\* The execute call in progress (or the last one).
Cur == execs[Len(execs)]

SetCur(e) == [execs EXCEPT ![Len(execs)] = e]

\* execute up to script.run: shared_init, compile.  A termination request in
\* effect when core.js runs ends the bootstrap with an error, on which
\* js_check panics.
ExecuteBegin(script) ==
  /\ pc = "idle"
  /\ Len(execs) < MaxExecutes
  /\ IF needs_init /\ terminating
     THEN /\ Panic(TerminatedMsg)
          /\ needs_init' = NeedsInitAfter(needs_init)
          /\ ran' = Append(ran, "core.js")
          /\ UNCHANGED <<startup_script, execs>>
     ELSE /\ pc' = "run"
          /\ result' = "none"
          /\ execs' = Append(execs,
                 [script |-> script, began |-> terminating, hit |-> FALSE,
                  exception |-> "none", is_terminating_exception |-> FALSE,
                  requested |-> FALSE, left |-> FALSE, result |-> "none"])
          /\ SharedInitRuns(TRUE)
  /\ UNCHANGED <<count, options, snapvars, terminating, terminations, loopvars>>
  /\ held' = IF needs_init /\ terminating THEN held ELSE Entered(held, "execute")

\* Another thread calls terminate_execution on the isolate's thread-safe
\* handle.
TerminateExecution ==
  /\ pc # "dead"
  /\ terminations < MaxTerminations
  /\ terminating' = TRUE
  /\ terminations' = terminations + 1
  /\ execs' = IF pc # "idle" THEN SetCur([Cur EXCEPT !.hit = TRUE]) ELSE execs
  /\ UNCHANGED <<count, pc, result, options, snapvars, needs_init, startup_script, ran, loopvars, held>>

\* The caller cancels the termination request between two calls.
CancelTerminateExecution ==
  /\ pc = "idle"
  /\ terminating
  /\ terminating' = FALSE
  /\ UNCHANGED <<count, pc, result, options, snapvars, needs_init, startup_script, ran, terminations, execs,
                 loopvars, held>>

\* script.run returns: a value, or nothing after the script threw or was
\* terminated.  The loop returns only when terminated; a request in effect
\* before the script starts terminates it at once, one that arrives while
\* it runs races with its end.
ScriptRun(out) ==
  /\ pc = "run"
  /\ out = "terminated" => terminating
  /\ out = "value" => Cur.script = "simple" /\ ~Cur.began
  /\ out = "thrown" => Cur.script = "throws" /\ ~Cur.began
  /\ IF out = "value"
     THEN /\ pc' = "idle"
          /\ result' = "Ok"
          /\ execs' = SetCur([Cur EXCEPT !.result = "Ok"])
     ELSE /\ pc' = "err"
          /\ result' = result
          /\ execs' = SetCur([Cur EXCEPT !.exception =
                                 IF out = "terminated" THEN "null" ELSE "thrown"])
  /\ UNCHANGED <<count, options, snapvars, needs_init, startup_script, ran, terminating, terminations,
                 loopvars, held>>

\* The exception is left as it is.
Substituted_Never(exception, is_terminating) == exception

\* exception_to_err_result: a null or undefined exception of a terminated
\* run is replaced by Error("execution terminated").
Substituted(exception, is_terminating) ==
  IF is_terminating /\ exception = "null" THEN "terminated" ELSE exception

\* exception_to_err_result, first half: the termination state is read and,
\* if set, cancelled so that the error can be created.
ExceptionToErrEnter ==
  /\ pc = "err"
  /\ pc' = "build"
  /\ terminating' = IF terminating THEN FALSE ELSE terminating
  /\ execs' = SetCur([Cur EXCEPT !.is_terminating_exception = terminating,
                                 !.exception = Substituted(@, terminating)])
  /\ UNCHANGED <<count, result, options, snapvars, needs_init, startup_script, ran, terminations, loopvars, held>>

\* The request is not made again.
ReTerminated_Never(t, is_terminating) == t

\* exception_to_err_result re-enables the termination it cancelled.
ReTerminated(t, is_terminating) == IF is_terminating THEN TRUE ELSE t

\* JsError's message for the exception.
Message(exception) ==
  CASE exception = "terminated" -> TerminatedMsg
    [] exception = "thrown" -> ThrownMsg
    [] OTHER -> NullMsg

\* exception_to_err_result, second half: the error is built, termination is
\* requested again if it was in effect on entry, and execute returns Err.
ExceptionToErrReturn ==
  /\ pc = "build"
  /\ pc' = "idle"
  /\ result' = Message(Cur.exception)
  /\ terminating' = ReTerminated(terminating, Cur.is_terminating_exception)
  /\ execs' = SetCur([Cur EXCEPT !.requested = Cur.is_terminating_exception,
                                 !.left = terminating',
                                 !.result = result'])
  /\ UNCHANGED <<count, options, snapvars, needs_init, startup_script, ran, terminations, loopvars, held>>

NextTerminate ==
  \/ \E script \in Scripts : ExecuteBegin(script)
  \/ TerminateExecution
  \/ CancelTerminateExecution
  \/ \E out \in {"value", "thrown", "terminated"} : ScriptRun(out)
  \/ ExceptionToErrEnter
  \/ ExceptionToErrReturn

SpecTerminate == Init /\ [][NextTerminate]_vars

\* ------------------------------------------ near-heap-limit callbacks
\* The closures the tests add: one that only doubles the limit and one that
\* also asks for termination.  The callback the engine is given for a
\* closure of type C is the function near_heap_limit_callback::<C>.
ClosureTypes == {"doubling", "terminating"}

\* Heap::RemoveNearHeapLimitCallback: the first pair holding the callback
\* function leaves the list.
EngineRemove(list, cb) ==
  LET at == {i \in 1..Len(list) : list[i].cb = cb}
  IN  IF at = {} THEN list
      ELSE SubSeq(list, 1, Min(at) - 1) \o SubSeq(list, Min(at) + 1, Len(list))

\* The callback stored before stays registered with the engine.
Replaced_Kept(list, prev) == list

\* add_near_heap_limit_callback, `if let Some((_, prev_cb)) = prev`: the
\* callback stored before is removed from the engine.
Replaced(list, prev) == IF prev = <<>> THEN list ELSE EngineRemove(list, prev[1].cb)

\* The boxes of the stored pairs in `data`, dropped.
Freed(f, data) == f \cup {data[i].data : i \in 1..Len(data)}

\* add_near_heap_limit_callback(cb) for a closure of type c: the closure is
\* boxed, the pair replaces the stored one, the callback stored before is
\* removed from the engine, the new one is pushed on the engine's list with
\* the box as its data, and the box stored before is dropped when the function returns.
AddNearHeapLimitCallback(c) ==
  /\ Owned
  /\ Len(invoke_count) < MaxCallbacks
  /\ LET entry == [cb |-> c, data |-> Len(invoke_count) + 1]
     IN  /\ near_heap_limit_callback_data' = <<entry>>
         /\ heap_callbacks' =
              Append(Replaced(heap_callbacks, near_heap_limit_callback_data), entry)
         /\ invoke_count' = Append(invoke_count, 0)
         /\ freed' = Freed(freed, near_heap_limit_callback_data)
  /\ result' = "none"
  /\ UNCHANGED <<pc, options, v8_isolate, snapshot_creator, has_snapshotted, global_context,
                 heap, blob, snapped, seen, runtimes, needs_init, startup_script, ran,
                 termvars, count, loopvars, held>>

\* remove_near_heap_limit_callback(heap_limit): the stored pair is taken;
\* if there was one its callback is removed from the engine and its box is
\* dropped.
RemoveNearHeapLimitCallback ==
  /\ Owned
  /\ near_heap_limit_callback_data' = <<>>
  /\ heap_callbacks' = Replaced(heap_callbacks, near_heap_limit_callback_data)
  /\ freed' = Freed(freed, near_heap_limit_callback_data)
  /\ result' = "none"
  /\ UNCHANGED <<pc, options, v8_isolate, snapshot_creator, has_snapshotted, global_context,
                 heap, blob, snapped, seen, runtimes, invoke_count, needs_init,
                 startup_script, ran, termvars, count, loopvars, held>>

\* The script that only allocates reaches the heap limit: the engine calls
\* the callback it was given last, which calls the closure its data points
\* to; a terminating closure asks for termination.
NearHeapLimit ==
  /\ pc = "run"
  /\ Cur.script = "loop"
  /\ heap_callbacks # <<>>
  /\ LET entry == heap_callbacks[Len(heap_callbacks)]
     IN  /\ invoke_count[entry.data] < MaxInvokes
         /\ invoke_count' = [invoke_count EXCEPT ![entry.data] = @ + 1]
         /\ terminating' = IF entry.cb = "terminating" THEN TRUE ELSE terminating
         /\ execs' = IF entry.cb = "terminating" THEN SetCur([Cur EXCEPT !.hit = TRUE]) ELSE execs
  /\ UNCHANGED <<pc, result, options, v8_isolate, snapshot_creator, has_snapshotted,
                 global_context, heap, blob, snapped, seen, runtimes,
                 near_heap_limit_callback_data, heap_callbacks, freed, needs_init,
                 startup_script, ran, terminations, count, loopvars, held>>

\* tests::test_heap_limit_cb_multiple and test_heap_limit_cb_remove: callbacks
\* are added and removed between executes of scripts, one of which allocates
\* without end.
NextHeapLimit ==
  \/ \E c \in ClosureTypes : AddNearHeapLimitCallback(c)
  \/ RemoveNearHeapLimitCallback
  \/ NearHeapLimit
  \/ \E script \in Scripts : ExecuteBegin(script)
  \/ CancelTerminateExecution
  \/ \E out \in {"value", "thrown", "terminated"} : ScriptRun(out)
  \/ ExceptionToErrEnter
  \/ ExceptionToErrReturn

SpecHeapLimit == Init /\ [][NextHeapLimit]_vars

\* ------------------------------------------------------------ properties
Times(seq, x) == Cardinality({j \in 1..Len(seq) : seq[j] = x})

Returned == result \in {"Ready", "Pending"}

\* C1: a poll that returns without an error returns Ready(Ok(())) exactly
\* when the reffed pending_ops, pending_dyn_imports and preparing_dyn_imports
\* are all empty as it returns, and Pending otherwise.
C1_ReadyIffIdle ==
  /\ result = "Ready" =>
       pending_ops = {} /\ pending_dyn_imports = {} /\ preparing_dyn_imports = {}
  /\ result = "Pending" =>
       pending_ops # {} \/ pending_dyn_imports # {} \/ preparing_dyn_imports # {}

\* A poll returned Pending with no op outstanding, only a load being fetched.
C1_Witness ==
  /\ result = "Pending"
  /\ pending_ops = {}
  /\ preparing_dyn_imports = {}
  /\ pending_dyn_imports # {}

\* Script registered its handler and fired only reffed ops, no callback
\* raised, and the runtime was polled to completion.
C2_Completed ==
  /\ result = "Ready"
  /\ js_recv_cb
  /\ ~raised
  /\ \A i \in 1..Len(ops) : ops[i].kind = "Async"

C3_BothDelivered ==
  (result = "Ready" /\ js_recv_cb /\ ~raised) => \A i \in Range(pulled) : i \in Range(delivered)

\* C4: a poll that ends with pending_ops and both dynamic-import sets empty
\* returns Ready(Ok(())) whatever unreffed ops are outstanding, and an op
\* that has not resolved is never handed to script: not through the queue,
\* not through the overflow slot.
C4_UnrefDoesNotKeepAlive ==
  /\ [](\A i \in 1..Len(ops) :
          InSet(ops[i].st) =>
            /\ i \notin Range(delivered)
            /\ i \notin Range(shared)
            /\ i # overflow_response)
  /\ [][(/\ pc = "finish"
         /\ pending_ops = {}
         /\ pending_dyn_imports = {}
         /\ preparing_dyn_imports = {}) => result' = "Ready"]_vars

\* Ready(Ok) with the handler registered, an unreffed op still unresolved and
\* nothing delivered.
C4_Witness ==
  /\ result = "Ready"
  /\ js_recv_cb
  /\ \E i \in pending_unref_ops : ops[i].st = "waiting"
  /\ delivered = <<>>

\* C5: in one poll the receive callback is called with an (op_id, bytes)
\* argument at most once.
C5_OneOverflowCall == Times(trace, "overflow") <= 1

\* A reffed and an unreffed response both failed to fit in the same poll, and
\* the overflow call was made.
C5_Witness ==
  /\ Times(trace, "overflow") = 1
  /\ \E i, j \in 1..Len(ops) :
       /\ ops[i].kind = "Async" /\ ops[j].kind = "AsyncUnref"
       /\ ops[i].len = BigLen /\ ops[j].len = BigLen
       /\ {i, j} \subseteq Range(pulled)
       /\ ops[j].st = "delivered"
\* The place of a script-visible step in the order C6 states.
Rank(ev) ==
  CASE ev = "batch" -> 1
    [] ev = "overflow" -> 2
    [] ev = "macro" -> 3
    [] ev = "check2" -> 4

\* C6: within one poll the batch call of the receive callback comes before
\* the overflow call, which comes before every macrotask-callback call,
\* which come before the final unhandled-rejection check.
C6_StepOrder ==
  \A j, k \in 1..Len(trace) :
    j < k => \/ Rank(trace[j]) < Rank(trace[k])
             \/ trace[j] = "macro" /\ trace[k] = "macro"

\* One poll made all four steps.
C6_Witness == trace = <<"batch", "overflow", "macro", "check2">>

\* C7: whenever a poll has returned Ready(Ok) or Pending the SharedQueue is
\* empty, and a batch callback that returns with responses left in the
\* queue makes the poll panic instead of going on.
C7_QueueDrained ==
  /\ [](Returned => shared = <<>>)
  /\ [][(pc = "batch" /\ js_recv_cb /\ shared' # <<>> /\ result' # "Err")
          => (pc' = "dead" /\ result' = NotDrained)]_vars

\* The batch callback shifted one of two queued responses and returned.
C7_Witness ==
  /\ result = NotDrained
  /\ Len(delivered) = 1
  /\ Len(shared) = 1

\* C8 (as amended): a poll that finds the SharedQueue non-empty at the batch
\* step while no receive callback is registered panics with "Deno.core.recv
\* has not been called."; the step is not skipped and nothing is delivered.
C8_PanicsWithoutRecv ==
  [][(pc = "batch" /\ SharedSize > 0 /\ ~js_recv_cb)
       => (pc' = "dead" /\ result' = RecvNotCalled /\ delivered' = delivered)]_vars

\* The poll panicked at the batch step: a response is queued and no callback
\* is registered.
C8_Witness ==
  /\ result = RecvNotCalled
  /\ shared # <<>>
  /\ ~js_recv_cb

\* C8 (as stated): with the SharedQueue non-empty and no receive callback
\* registered the poll does not panic because of the missing callback.
C8_SkippedSilently ==
  (shared # <<>> /\ ~js_recv_cb) => result # RecvNotCalled

\* C9 (as stated): a dynamic import whose load has left both load sets has
\* its promise settled, whatever stage failed.
C9_FailureRejects ==
  \A l \in 1..Len(loads) : loads[l].where = "gone" => loads[l].promise # "pending"

\* C10 (as stated): the id of a load that is in neither preparing_dyn_imports
\* nor pending_dyn_imports is absent from dyn_import_map.
C10_MapCleared ==
  \A l \in 1..Len(loads) : loads[l].where = "gone" => l \notin dyn_import_map

\* C11: a load's state only moves LoadingRoot -> LoadingImports -> Done,
\* never backwards, and a load that is Done has its root module id set and
\* nothing pending.
LoadRank(state) ==
  CASE state = "LoadingRoot" -> 0
    [] state = "LoadingImports" -> 1
    [] state = "Done" -> 2

C11_LoadStateForward ==
  /\ [](\A l \in 1..Len(loads) :
          loads[l].state = "Done" =>
            /\ loads[l].root_module_id # "none"
            /\ loads[l].fetching = {}
            /\ loads[l].fetched = {})
  /\ [][\A l \in 1..Len(loads) :
          LoadRank(loads'[l].state) >= LoadRank(loads[l].state)]_vars

\* A load of a.js that went through LoadingImports (it fetched b.js for the
\* import) and is Done.
C11_Witness ==
  \E l \in 1..Len(loads) :
     /\ loads[l].state = "Done"
     /\ loads[l].root_module_id = "a"
     /\ loads[l].is_pending = {"b"}

\* C12: across main and dynamic loads, several of which may have fetched the
\* same url before any of them registers it, each found url is compiled and
\* registered by mod_new at most once; a source whose found url already has
\* an id reuses the id.
C12_RegisteredOnce ==
  \A u \in Urls :
     /\ registered[u] <= 1
     /\ registered[u] = 1 <=> GetId(modules, u) # "none"

\* Two dynamic loads in flight at once, one for b and one for c (found at
\* b), both past the registration of their root.
C12_Witness ==
  \E l1, l2 \in 1..Len(loads) :
     /\ loads[l1].root = "b" /\ loads[l2].root = "c"
     /\ loads[l1].where = "pending" /\ loads[l2].where = "pending"
     /\ loads[l1].root_module_id = "b" /\ loads[l2].root_module_id = "b"
     /\ registered["b"] = 1

\* C13: across any sequence of execute, mod_evaluate, load_module and poll
\* calls the bootstrap script runs exactly once, before any user script, and
\* the startup script, if there is one, runs exactly once right after it;
\* this holds for every kind of startup data, a snapshot included.
C13_BootstrapOnceFirst ==
  /\ needs_init <=> ran = <<>>
  /\ ran # <<>> =>
       /\ ran[1] = "core.js"
       /\ Times(ran, "core.js") = 1
       /\ IF options.startup \in {"script", "throws"}
          THEN Len(ran) >= 2 /\ ran[2] = "startup" /\ Times(ran, "startup") = 1
          ELSE Times(ran, "startup") = 0
  /\ startup_script = "some" => needs_init

\* A runtime with a startup script that was polled to Ready after a user
\* script ran.
C13_Witness ==
  /\ options.startup = "script"
  /\ ran = <<"core.js", "startup", "user">>
  /\ result = "Ready"

\* C14: an execute of a script that never ends, terminated by a request
\* from another thread, returns the error "Uncaught Error: execution
\* terminated"; once the caller has cancelled the request, an execute of a
\* script that returns, during which no new request arrives, succeeds.
C14_TerminatedThenUsable ==
  \A i \in 1..Len(execs) :
     execs[i].result # "none" =>
       /\ execs[i].script = "loop" => execs[i].result = TerminatedMsg
       /\ execs[i].script = "simple" /\ ~execs[i].began /\ ~execs[i].hit =>
            execs[i].result = "Ok"

\* The loop was terminated while it ran, the request was cancelled, and the
\* next execute returned Ok.
C14_Witness ==
  /\ Len(execs) = 2
  /\ execs[1].script = "loop" /\ execs[1].hit /\ ~execs[1].began
  /\ execs[1].result = TerminatedMsg
  /\ execs[2].script = "simple" /\ execs[2].result = "Ok"

\* C15: exception_to_err_result preserves the termination request: in
\* effect on entry, it is in effect on return; not in effect on entry, the
\* helper does not request it.
C15_TerminationPreserved ==
  \A i \in 1..Len(execs) :
     execs[i].result \notin {"none", "Ok"} =>
       /\ execs[i].is_terminating_exception => execs[i].left
       /\ ~execs[i].is_terminating_exception => ~execs[i].requested

\* One execute went through the helper with the request in effect and no
\* other request made meanwhile, and one with no request in effect.
C15_Witness ==
  /\ Len(execs) = 2
  /\ terminations = 1
  /\ execs[1].is_terminating_exception /\ execs[1].left
  /\ execs[2].result = ThrownMsg /\ ~execs[2].is_terminating_exception

\* C16: no borrow of the RuntimeState is held at any entry into script: the
\* run of a classic script, the batch and overflow receive calls, the
\* macrotask callback, module instantiation and evaluation, and the
\* microtask checkpoint after a dynamic import is resolved or rejected.
C16_NoBorrowAtScriptEntry == held = 0

\* In one poll a dynamic import was instantiated, evaluated and resolved,
\* and the batch call and the macrotask callback ran.
C16_Witness ==
  /\ \E l \in 1..Len(loads) : loads[l].promise = "resolved"
  /\ Times(trace, "batch") = 1
  /\ Times(trace, "macro") = 1
  /\ held = 0

\* C17 as stated: every rejection recorded before a poll has been surfaced
\* once that poll is past its first rejection check, however many were
\* recorded together.
C17_AllSurfacedByStep4 ==
  (pc \notin {"prepare", "dyn", "check1", "dead"} /\ (pc # "idle" \/ result # "none")) =>
    at_poll \cap pending_promise_exceptions = {}

\* C17: a poll gets past its first rejection check only if no rejection was
\* recorded when it was entered, and a poll surfaces at most one of the
\* rejections recorded before it; the others stay recorded for later polls.
C17_OneSurfacedPerCheck ==
  /\ pc \in {"ops", "unref", "batch", "overflow", "macro", "check2", "finish"} => at_poll = {}
  /\ Cardinality(at_poll \ pending_promise_exceptions) <= 1

\* A poll entered with two rejections recorded returned one of them as its
\* error and left the other recorded.
C17_Witness ==
  /\ pc = "idle"
  /\ result = "Err"
  /\ Cardinality(at_poll) = 2
  /\ Cardinality(at_poll \cap pending_promise_exceptions) = 1
\* C18: after mod_evaluate, no rejection recorded against the promise that the
\* module's evaluation returned is left in the pending-rejection map, so a
\* later poll has no evaluation error to report again.
C18_EvaluationPromiseCleared == pending_promise_exceptions \cap EvaluationPromises = {}

\* A module's evaluation failed, mod_evaluate reported it, and a later poll
\* of the event loop returned Ready without an error.
C18_Witness ==
  /\ \E u \in Urls : modules[u] = "Errored"
  /\ pc = "idle"
  /\ result = "Ready"
  /\ \A l \in DOMAIN loads : loads[l].promise = "none"

\* The place of op i in the order poll pulled responses from the future sets.
PulledAt(i) == CHOOSE p \in 1..Len(pulled) : pulled[p] = i

\* C19 (as stated): the responses script has received, all of one op id,
\* reached it in the order in which poll pulled them from pending_ops and
\* pending_unref_ops, whatever their kinds and sizes.
C19_DeliveredInPullOrder ==
  \A p, q \in 1..Len(delivered) :
     p < q => PulledAt(delivered[p]) < PulledAt(delivered[q])

\* The script of tests::dyn_import_ok: import('./b.js') awaited twice.
DynImport3 == options.awaits = <<"b", "b">>

\* The loader's prepare, resolve and load counters.
Calls == <<count.prepare_load, count.resolve, count.load>>

\* C20: with the counting loader and a script awaiting import('./b.js')
\* twice in sequence, the first poll returns Pending with exactly one prepare
\* call made, the second returns Ready(Ok) with exactly 2 prepare, 4 resolve
\* and 2 load calls made, and every further poll returns Ready(Ok) and
\* leaves the three counts as they are; no poll fails or panics and no count
\* ever exceeds its final value.
C20_CountsOfTwoImports ==
  /\ [][(DynImport3 /\ pc = "finish" /\ count.polls = 1)
          => (result' = "Pending" /\ count'.prepare_load = 1)]_vars
  /\ [][(DynImport3 /\ pc = "finish" /\ count.polls = 2)
          => (result' = "Ready" /\ Calls = <<2, 4, 2>>)]_vars
  /\ [][(DynImport3 /\ count.polls >= 3)
          => (Calls' = Calls /\ (pc = "finish" => result' = "Ready"))]_vars
  /\ [](DynImport3 =>
          /\ pc # "dead"
          /\ result # "Err"
          /\ count.prepare_load <= 2 /\ count.resolve <= 4 /\ count.load <= 2
          /\ count.polls >= 3 => Calls = <<2, 4, 2>>)

\* The script awaited both imports, the runtime was polled to Ready(Ok) and
\* then polled once more.
C20_Witness ==
  /\ DynImport3
  /\ count.polls = 3
  /\ pc = "idle"
  /\ result = "Ready"
  /\ Calls = <<2, 4, 2>>
  /\ \A l \in 1..Len(loads) : loads[l].promise = "resolved"
  /\ Len(loads) = 2

Delivers(i) == ops[i].kind \in Kinds /\ ops[i].st # "delivered" /\ ops'[i].st = "delivered"

BigResponse(i) == ops[i].kind = "Async" /\ ops[i].len > QueueCap

SendsSync == Len(ops') = Len(ops) + 1 /\ ops'[Len(ops')].kind = "Sync"

\* C24: when the router answers Sync(bytes) the bytes are the return value of
\* that very send, whatever the sizes of request and response: the op is
\* never in the SharedQueue, the overflow slot or a receive call, it is never
\* pulled by a poll, and the send changes neither pending-op set.
C24_SyncReturnedDirectly ==
  /\ [](\A i \in 1..Len(ops) : ops[i].kind = "Sync" =>
          /\ ops[i].ret = "bytes"
          /\ ops[i].st = "returned"
          /\ Times(shared, i) = 0
          /\ Times(delivered, i) = 0
          /\ Times(pulled, i) = 0
          /\ Times(runq, i) = 0
          /\ Times(runq_unref, i) = 0
          /\ overflow_response # i)
  /\ [][SendsSync =>
          /\ runq' = runq
          /\ runq_unref' = runq_unref
          /\ have_unpolled_ops' = have_unpolled_ops
          /\ \A i \in 1..Len(ops) : ops'[i].kind = ops[i].kind
          /\ \A i \in 1..Len(ops) :
                (ops[i].st \in {"new", "waiting", "ready"}) = (ops'[i].st \in {"new", "waiting", "ready"})]_vars

\* A sync op with a big request and a big response returned its bytes to the
\* caller, and the poll that followed found nothing to deliver.
C24_Witness ==
  /\ result = "Ready"
  /\ Len(ops) = 1
  /\ ops[1].kind = "Sync"
  /\ ops[1].req > QueueCap /\ ops[1].len > QueueCap
  /\ ops[1].ret = "bytes"
  /\ js_recv_cb
  /\ delivered = <<>>

\* The sends made so far to the op the router knows.
KnownSends == {i \in 1..Len(ops) : ops[i].kind # "NotFound"}

\* C25: every send to a known op calls the router once, inside the send:
\* the dispatch count is at all times the number of such sends made so far
\* (so it is N after N sends, before any poll), it moves only in a step in
\* which script sends, by one, and a step of poll in which script does not
\* send leaves it alone.
C25_OneDispatchPerSend ==
  /\ [](dispatch_count = Cardinality(KnownSends))
  /\ [][dispatch_count' # dispatch_count =>
          /\ Len(ops') = Len(ops) + 1
          /\ ops'[Len(ops')].kind # "NotFound"
          /\ dispatch_count' = dispatch_count + 1]_vars
  /\ [][(pc # "idle" /\ Len(ops') = Len(ops)) => dispatch_count' = dispatch_count]_vars

\* Two sends were dispatched and no poll has looked at their futures yet.
C25_Witness ==
  /\ pc = "idle"
  /\ Len(ops) = 2
  /\ \A i \in 1..2 : ops[i].kind = "Async" /\ ops[i].st = "new"
  /\ pulled = <<>>
  /\ dispatch_count = 2

\* The step is a send to an op id the router does not know.
SendsUnknown == Len(ops') = Len(ops) + 1 /\ ops'[Len(ops')].kind = "NotFound"

\* C26: a send to an unknown op id throws TypeError "Unknown op id: <id>" out
\* of the send itself; it adds nothing to either pending-op set, is not
\* dispatched, records no promise rejection, and a runtime whose script did
\* nothing but such sends is never made to return an error from poll.
C26_UnknownOpThrows ==
  /\ [](\A i \in 1..Len(ops) : ops[i].kind = "NotFound" =>
          /\ ops[i].ret = UnknownOpId
          /\ ops[i].st = "thrown"
          /\ Times(runq, i) = 0
          /\ Times(runq_unref, i) = 0
          /\ Times(pulled, i) = 0
          /\ overflow_response # i)
  /\ [][SendsUnknown =>
          /\ runq' = runq
          /\ runq_unref' = runq_unref
          /\ have_unpolled_ops' = have_unpolled_ops
          /\ dispatch_count' = dispatch_count
          /\ pending_promise_exceptions' = pending_promise_exceptions]_vars
  /\ []((rejections = 0 /\ \A i \in 1..Len(ops) : ops[i].kind = "NotFound")
          => (result # "Err" /\ pc # "dead"))

\* Script sent to the unknown op id twice, caught the TypeError each time,
\* and the poll that followed returned Ready(Ok).
C26_Witness ==
  /\ result = "Ready"
  /\ Len(ops) = 2
  /\ \A i \in 1..2 : ops[i].kind = "NotFound" /\ ops[i].ret = UnknownOpId
  /\ dispatch_count = 0

\* The step is a mod_new that registered a module for u.
Creates(u) == registered'[u] = registered[u] + 1

\* C27: a mod_new that registers a module calls loader.resolve once per
\* import request of the source, in request order, each time with the
\* module's own url as the referrer, and registers the module with the
\* resolved urls in that order; it runs nothing of the module: the module is
\* left Registered, no op is dispatched before some module was evaluated, and
\* the evaluation of a module whose script sends once dispatches one op.
C27_ModNewResolvesInOrder ==
  /\ [][\A u \in Urls : Creates(u) =>
          /\ resolve_calls' =
               resolve_calls \o [i \in 1..Len(requests'[u]) |-> <<requests'[u][i], u>>]
          /\ children'[u] =
               [i \in 1..Len(requests'[u]) |-> ResolveImport(requests'[u][i], u)]
          /\ modules'[u] = "Registered"
          /\ opvars' = opvars
          /\ ran' = ran]_vars
  /\ [](dispatch_count > 0 => \E u \in Urls : modules[u] \in {"Evaluated", "Errored"})
  /\ [][(\A u \in Urls : modules'[u] \in {"Evaluated", "Errored"} <=>
                           modules[u] \in {"Evaluated", "Errored"})
          => dispatch_count' = dispatch_count]_vars
  /\ [][Len(ops') # Len(ops) =>
          /\ Len(ops') = Len(ops) + 1
          /\ dispatch_count' = dispatch_count + 1
          /\ \E u \in Urls : modules[u] = "Instantiated" /\ modules'[u] # "Instantiated"]_vars

\* a.js, whose source imports b.js and then itself, and b.js were created,
\* a.js was instantiated and evaluated, and its script sent one op.
C27_Witness ==
  /\ requests["a"] = <<"./b.js", "./a.js">>
  /\ children["a"] = <<"b", "a">>
  /\ resolve_calls = << <<"./b.js", "a">>, <<"./a.js", "a">> >>
  /\ modules["a"] = "Evaluated"
  /\ modules["b"] = "Evaluated"
  /\ dispatch_count = 1
  /\ result = "Ok"

\* The step constructs a runtime from a snapshot.
StartsFromSnapshot ==
  /\ runtimes' = runtimes + 1
  /\ pc' = "idle"
  /\ options'.startup \in {"JustCreated", "Boxed"}

FromSnapshot == v8_isolate = "owned" /\ options.startup \in {"JustCreated", "Boxed"}

RegistryEmpty ==
  /\ \A u \in Urls : modules[u] = "none" /\ children[u] = <<>> /\ requests[u] = <<>>
  /\ alias = {}

\* C29: snapshot() goes on to create the blob only on a runtime that has a
\* snapshot builder and panics on any other; when the blob is created the
\* RuntimeState holds no context handle and its module registry is empty,
\* whatever was registered, instantiated or evaluated before; and when
\* snapshot() has returned has_snapshotted is set.
C29_SnapshotTakesContextAndModules ==
  /\ [](pc = "snapshot" => snapshot_creator = "some" /\ ~global_context /\ RegistryEmpty)
  /\ [][pc = "snapshot" => (pc' = "idle" /\ has_snapshotted' /\ blob'.taken)]_vars
  /\ [][(blob' # blob \/ (has_snapshotted' /\ ~has_snapshotted)) => pc = "snapshot"]_vars
  /\ [](has_snapshotted => snapshot_creator # "none")
  /\ [](result = SnapshotAssert => (~has_snapshotted /\ snapshot_creator = "none" /\ pc # "idle"))

\* a.js and b.js were created, instantiated and evaluated, and then the
\* runtime was snapshotted.
C29_Witness ==
  /\ runtimes = 1
  /\ pc = "idle"
  /\ has_snapshotted
  /\ blob.taken
  /\ registered = [u \in Urls |-> 1]
  /\ "user" \in Range(ran)
  /\ RegistryEmpty
  /\ ~global_context

\* C30 (as stated): the isolate of a dropped runtime that owned a snapshot
\* builder is leaked, and the builder is dropped exactly when the runtime has
\* snapshotted; without a builder the isolate is dropped; and no runtime comes
\* out of a construction with will_snapshot and a startup snapshot.
C30_BuilderDroppedIffSnapshotted ==
  /\ pc = "dropped" =>
       /\ v8_isolate \in {"leaked", "dropped"}
       /\ v8_isolate = "dropped" <=> snapshot_creator = "none"
       /\ v8_isolate = "leaked" => (snapshot_creator = "dropped" <=> has_snapshotted)
  /\ result = StartupSnapshotAssert => (pc = "dead" /\ v8_isolate = "none")

\* The closure whose box the runtime holds (0: none).
Current == IF near_heap_limit_callback_data = <<>> THEN 0 ELSE near_heap_limit_callback_data[1].data

\* C31: after any sequence of add and remove calls the engine holds at most
\* one near-heap-limit callback, the one the runtime stores, which is the
\* closure added last unless it was removed since; only that closure is ever
\* invoked, so a replaced one never is; and the box of every closure that was
\* replaced or removed has been dropped, so that after remove the runtime
\* holds no callback data.
C31_OneHeapLimitCallback ==
  /\ [](/\ Len(heap_callbacks) <= 1
        /\ heap_callbacks = near_heap_limit_callback_data
        /\ Current \in {0, Len(invoke_count)}
        /\ freed = (1..Len(invoke_count)) \ {Current})
  /\ [][\A i \in 1..Len(invoke_count) :
          invoke_count'[i] # invoke_count[i] => (i = Current /\ i \notin freed)]_vars
  /\ [][(near_heap_limit_callback_data # <<>> /\ Len(invoke_count') = Len(invoke_count)
           /\ near_heap_limit_callback_data' # near_heap_limit_callback_data)
          => (near_heap_limit_callback_data' = <<>> /\ heap_callbacks' = <<>>
              /\ freed' = 1..Len(invoke_count))]_vars

\* Two closures were added, the allocating script was terminated by the
\* second after the engine called it, the first was never called, and the
\* second was then removed.
C31_Witness ==
  /\ Len(invoke_count) = 2
  /\ invoke_count[1] = 0
  /\ invoke_count[2] > 0
  /\ Len(execs) = 1
  /\ execs[1].result = TerminatedMsg
  /\ near_heap_limit_callback_data = <<>>
  /\ heap_callbacks = <<>>
  /\ freed = {1, 2}

\* The step is script, run by the batch call, the overflow call or the
\* macrotask callback, registering a new async op.
SendsInPoll ==
  /\ pc \in {"batch", "overflow", "macro"}
  /\ Len(ops') = Len(ops) + 1
  /\ ops'[Len(ops')].kind \in Kinds

\* An async op no poll has looked at yet.
Unpolled == \E i \in 1..Len(ops) : ops[i].kind \in Kinds /\ ops[i].st = "new"

\* C32: an async op that script registers inside the batch call, the
\* overflow call or the macrotask callback sets have_unpolled_ops; the flag
\* stays set for the rest of the poll; and a poll that returns Pending with
\* the flag set has notified the waker when it returns.  So a poll that made
\* no overflow call, ends with an op it never polled and returns Pending has
\* notified the waker.
C32_WakesForOpsRegisteredInPoll ==
  /\ [][SendsInPoll => have_unpolled_ops']_vars
  /\ [][(pc \in {"batch", "overflow", "macro", "check2"} /\ have_unpolled_ops
           /\ pc' \notin {"idle", "dead"}) => have_unpolled_ops']_vars
  /\ [][(pc = "finish" /\ have_unpolled_ops /\ result' = "Pending") => woken']_vars
  /\ [][(pc = "finish" /\ Unpolled /\ Times(trace, "overflow") = 0 /\ result' = "Pending")
          => woken']_vars

\* The response of the first op was delivered in the batch call, in which
\* script registered a second op; the poll returned Pending and the waker
\* is notified although nothing outside the poll happened.
C32_Witness ==
  /\ pc = "idle"
  /\ result = "Pending"
  /\ Len(ops) = 2
  /\ ops[1].st = "delivered"
  /\ ops[2].kind = "Async" /\ ops[2].st = "new"
  /\ loads = <<>>
  /\ have_unpolled_ops
  /\ woken

\* Load l is a main load, not a dynamic import.
IsMainLoad(l) == loads[l].promise = "none"

\* C33: a module becomes main only in the step in which a main load that is
\* in LoadingRoot creates it by mod_new, as the load's root; a step of a
\* dynamic import's load, and a step of a load that is past LoadingRoot,
\* registers no main module; a source whose url already has a module makes
\* none main; so every main module is the root of a main load and each load
\* has registered at most one.
C33_MainOnlyRootOfMainLoad ==
  /\ [][\A u \in main' \ main :
          /\ pc = "load"
          /\ loads[MainLoadId].state = "LoadingRoot"
          /\ loads'[MainLoadId].state # "LoadingRoot"
          /\ loads'[MainLoadId].root_module_id = u
          /\ registered'[u] = registered[u] + 1
          /\ main' = main \cup {u}]_vars
  /\ [][pc # "load" => main' = main]_vars
  /\ [](\A u \in main : \E l \in 1..Len(loads) : IsMainLoad(l) /\ loads[l].root_module_id = u)
  /\ [](Cardinality(main) <= Cardinality({l \in 1..Len(loads) : IsMainLoad(l)}))

\* A dynamic import registered b.js as its root, and then a main load of
\* a.js registered a.js as main and went on to Done without fetching b.js.
C33_Witness ==
  /\ main = {"a"}
  /\ modules["a"] # "none" /\ modules["b"] # "none"
  /\ Len(loads) = 2
  /\ ~IsMainLoad(1) /\ loads[1].root_module_id = "b"
  /\ IsMainLoad(2) /\ loads[2].root_module_id = "a" /\ loads[2].state = "Done"

\* C34: a mod_instantiate(0) on a table with no module under id 0 returns Ok
\* and changes nothing else: no module is linked and no script is entered; a
\* mod_instantiate of another id the table does not hold panics, and never
\* returns an error.
C34_ZeroIsNoOpUnknownPanics ==
  /\ [][ModInstantiateCall("0") =>
          /\ result' = "Ok"
          /\ pc' = "idle"
          /\ UNCHANGED <<regvars, opvars, loads, dyn_import_map, shared, overflow_response,
                         woken, js_recv_cb, js_macrotask_cb, hostvars, held, rejvars,
                         delivered, pulled, raised, trace>>]_vars
  /\ [][ModInstantiateCall("7") =>
          /\ pc' = "dead"
          /\ result' = ModuleNotFound
          /\ modules' = modules]_vars
  /\ [](result = ModuleNotFound <=> pc = "dead")

\* No module was ever registered (a mod_new of a.js failed to resolve its
\* import) and the last call returned Ok: it was mod_instantiate(0).
C34_Witness ==
  /\ pc = "idle"
  /\ result = "Ok"
  /\ \A u \in Urls : modules[u] = "none" /\ registered[u] = 0
  /\ resolve_calls = << <<"b.js", "a">> >>


\* The step in which load l stops although it was prepared and everything
\* fetched for it arrived: mod_new failed on a fetched source.
LoadStoppedByModNew(l) ==
  /\ loads[l].where # "gone"
  /\ loads'[l].where = "gone"
  /\ loads[l].prep = "ok"
  /\ loads[l].state # "Done"
  /\ \A f \in loads[l].fetched : f.ok

\* C35: a mod_new that fails, on a source that does not compile or on an
\* import the loader cannot resolve, registers nothing: the modules, their
\* counts, their import requests and the main module are those before the
\* call, and the only trace it leaves is the call of loader.resolve that
\* failed.  The load it belonged to stops with the error: load_module
\* returns it, a dynamic import's promise is rejected, and the stopped load
\* never registers anything afterwards.
C35_FailedModNewRegistersNothing ==
  /\ [][\A l \in 1..Len(loads) :
          LoadStoppedByModNew(l) =>
            /\ modules' = modules
            /\ registered' = registered
            /\ requests' = requests
            /\ children' = children
            /\ main' = main
            /\ \/ resolve_calls' = resolve_calls
               \/ \E u \in Urls : resolve_calls' = Append(resolve_calls, <<BadSource[1], u>>)
            /\ IF IsMainLoad(l)
               THEN pc' = "idle" /\ result' = "Err"
               ELSE l \in dyn_import_map => loads'[l].promise = "rejected"]_vars
  /\ [][\A l \in 1..Len(loads) : loads[l].where = "gone" => loads'[l] = loads[l]]_vars

C35_Witness ==
  /\ Len(loads) = 2
  /\ IsMainLoad(1) /\ loads[1].where = "gone" /\ loads[1].state = "LoadingRoot"
  /\ loads[1].prep = "ok" /\ loads[1].fetched = {LoadResult("a")}
  /\ ~IsMainLoad(2) /\ loads[2].where = "gone" /\ loads[2].promise = "rejected"
  /\ loads[2].prep = "ok" /\ loads[2].state = "LoadingRoot"
  /\ loads[2].fetched # {} /\ \A f \in loads[2].fetched : f.ok
  /\ resolve_calls = << <<"b.js", "a">> >>
  /\ \A u \in Urls : modules[u] = "none" /\ registered[u] = 0

\* C36: a poll that reaches macrotask draining invokes nothing when no
\* callback is registered and goes on; with a callback it invokes it, and
\* after each invocation either invokes it again, or leaves the loop for the
\* second rejection check, or (when the invocation threw) returns the error
\* at once.  Outside the drain loop the callback is not invoked, so it is
\* not invoked again in that poll once the loop has ended.
C36_MacrotasksDrainedUntilDone ==
  /\ [][(pc = "macro" /\ ~js_macrotask_cb) =>
          /\ pc' = "check2"
          /\ trace' = trace
          /\ result' = result
          /\ held' = held]_vars
  /\ [][(pc = "macro" /\ js_macrotask_cb) =>
          \/ /\ pc' = "macro"
             /\ trace' = Append(trace, "macro")
             /\ raised' = raised
          \/ /\ pc' = "check2"
             /\ trace' = Append(trace, "macro")
             /\ raised' = raised
             /\ result' = result
          \/ /\ pc' = "idle"
             /\ result' = "Err"
             /\ raised']_vars
  /\ [][(pc = "macro" /\ raised' /\ ~raised) => (pc' = "idle" /\ result' = "Err")]_vars
  /\ [][pc # "macro" => (trace' = <<>> \/ Times(trace', "macro") = Times(trace, "macro"))]_vars
  /\ [](pc \in {"check2", "finish"} /\ js_macrotask_cb => Times(trace, "macro") >= 1)
  /\ [](~js_macrotask_cb => Times(trace, "macro") = 0)

\* The callback returned false and was invoked again, returning true, and
\* the poll went on to its second rejection check.
C36_Witness ==
  /\ pc = "check2"
  /\ js_macrotask_cb
  /\ Times(trace, "macro") = MaxMacro + 1
  /\ ~raised

\* C37 as stated: when a poll has ended, every response pulled from the
\* reffed or the unreffed set has been delivered to script or is still held
\* in the SharedQueue; none was overwritten in the overflow slot and none
\* was discarded with it.
C37_NoResponseDropped ==
  pc = "idle" =>
    \A j \in 1..Len(pulled) : ops[pulled[j]].st \in {"delivered", "shared"}

\* The poll that is about to return delivered, through the overflow call, a
\* response that the reffed loop could not push, and reffed futures that
\* are complete were left unpulled in the set.
OverflowLeftCompleted ==
  /\ pc = "finish"
  /\ Times(trace, "overflow") = 1
  /\ delivered # <<>>
  /\ ops[delivered[Len(delivered)]].kind = "Async"
  /\ \E i \in Range(runq) : ops[i].st = "ready"

\* C38 as stated: a poll that stopped pulling reffed responses at an
\* overflow, left completed reffed futures unpulled and returns Pending has
\* notified the waker.
C38_NoLostWakeAfterOverflow ==
  [][(OverflowLeftCompleted /\ result' = "Pending") => woken']_vars

\* C39 as stated: a load that has reached Done, whose root is instantiated
\* next, finds every module reachable from its root registered, whatever
\* other loads did or are still doing.
C39_DoneLoadHasWholeGraph ==
  \A l \in 1..Len(loads) :
    (loads[l].state = "Done" /\ loads[l].where # "gone") =>
      \A u \in Reach(loads[l].root_module_id) : modules[u] # "none"

\* C40 as stated: the assertion that an overflow response is not empty
\* never fails, and a response that push rejected and that waits in the
\* overflow slot holds at least one byte, whatever its size and whatever
\* the SharedQueue holds.
C40_OverflowResponseNonEmpty ==
  /\ result # EmptyBuf
  /\ overflow_response # 0 => ops[overflow_response].len >= 1

============================================================================
